---- MODULE Spec2Model ----
(***************************************************************************)
(* The two webhook handlers of kanobug: KanobugCommand (slash command ->   *)
(* dialog.open) and KanobugInteractiveComponent (dialog submission ->      *)
(* DynamoDB put, then the deferred createIssue: tracker issue and          *)
(* response-URL confirmation).                                             *)
(*                                                                         *)
(* A Go string is a sequence of characters, each a TLA+ string.  "BAD" is  *)
(* a byte that is not valid UTF-8; "LF", "CR" and "TAB" are the ASCII      *)
(* control characters of those names; "U+FFFD", "U+2028" and "U+2029" are  *)
(* the Unicode characters of those code points, and so is every character  *)
(* outside ASCII written.  Fixed literals of the                           *)
(* source that are only ever copied, never parsed or transformed, are      *)
(* written as one chunk.                                                   *)
(***************************************************************************)
EXTENDS Integers, Sequences, FiniteSets, TLC

\* Longest free-text argument of a Command request.
MaxLen == 2
\* How many times the wall clock advances during a behaviour.
MaxTicks == 2
\* Wall-clock second at which a behaviour starts (time.Now() of the first read).
StartSec == 1540000000
\* Sub-second step of the wall clock, in nanoseconds.
NanoStep == 500000000

\* The invocations: C3 is about two of them, interleaved.
Invocations == {1, 2}

(***************************************************************************)
(* Strings                                                                 *)
(***************************************************************************)
EmptyString == << >>

StringsUpTo(chars, n) == UNION {[1..k -> chars] : k \in 0..n}

RECURSIVE Concat(_)
Concat(parts) ==
    IF parts = << >> THEN << >> ELSE Head(parts) \o Concat(Tail(parts))

\* ASCII control characters (bytes below 0x20, and 0x7f).
ControlChars == {"LF", "CR", "TAB"}

LowerCase ==
    <<"a", "b", "c", "d", "e", "f", "g", "h", "i", "j", "k", "l", "m",
      "n", "o", "p", "q", "r", "s", "t", "u", "v", "w", "x", "y", "z">>

UpperCase ==
    <<"A", "B", "C", "D", "E", "F", "G", "H", "I", "J", "K", "L", "M",
      "N", "O", "P", "Q", "R", "S", "T", "U", "V", "W", "X", "Y", "Z">>

Letters ==
    {LowerCase[k] : k \in 1..Len(LowerCase)} \cup {UpperCase[k] : k \in 1..Len(UpperCase)}

Digits == {"0", "1", "2", "3", "4", "5", "6", "7", "8", "9"}

HexDigits == Digits \cup {"a", "b", "c", "d", "e", "f", "A", "B", "C", "D", "E", "F"}

\* The printable ASCII characters, from the space (0x20) to '~' (0x7e); the
\* grave accent is written "U+0060".
Ascii ==
    <<" ", "!", "\"", "#", "$", "%", "&", "'", "(", ")", "*", "+", ",", "-",
      ".", "/", "0", "1", "2", "3", "4", "5", "6", "7", "8", "9", ":", ";",
      "<", "=", ">", "?", "@", "A", "B", "C", "D", "E", "F", "G", "H", "I",
      "J", "K", "L", "M", "N", "O", "P", "Q", "R", "S", "T", "U", "V", "W",
      "X", "Y", "Z", "[", "\\", "]", "^", "_", "U+0060", "a", "b", "c", "d",
      "e", "f", "g", "h", "i", "j", "k", "l", "m", "n", "o", "p", "q", "r",
      "s", "t", "u", "v", "w", "x", "y", "z", "{", "|", "}", "~">>

\* The character of a byte from 0x20 to 0x7e.
AsciiChar(v) == Ascii[v - 31]

\* The byte is below 0x80.
IsASCII(c) == c \in ControlChars \/ \E k \in 1..Len(Ascii) : Ascii[k] = c

\* strings.ToLower, one character
ToLowerChar(c) ==
    IF \E k \in 1..Len(UpperCase) : UpperCase[k] = c
    THEN LowerCase[CHOOSE k \in 1..Len(UpperCase) : UpperCase[k] = c]
    ELSE c

\* unhex
HexValue(c) ==
    LET hex == <<"0", "1", "2", "3", "4", "5", "6", "7", "8", "9",
                 "a", "b", "c", "d", "e", "f">>
    IN (CHOOSE k \in 1..Len(hex) : hex[k] = ToLowerChar(c)) - 1

\* strings.Index(s, c) + 1: the position of the first c in s, 0 when none.
IndexOf(s, c) ==
    IF \E k \in 1..Len(s) : s[k] = c
    THEN CHOOSE k \in 1..Len(s) : s[k] = c /\ \A j \in 1..(k - 1) : s[j] # c
    ELSE 0

\* strings.LastIndex(s, c) + 1
LastIndexOf(s, c) ==
    IF \E k \in 1..Len(s) : s[k] = c
    THEN CHOOSE k \in 1..Len(s) : s[k] = c /\ \A j \in (k + 1)..Len(s) : s[j] # c
    ELSE 0

\* strings.HasPrefix
HasPrefix(s, prefix) ==
    Len(s) >= Len(prefix) /\ SubSeq(s, 1, Len(prefix)) = prefix

\* before, _, _ := strings.Cut(s, c)
CutBefore(s, c) ==
    IF IndexOf(s, c) = 0 THEN s ELSE SubSeq(s, 1, IndexOf(s, c) - 1)

\* _, after, _ := strings.Cut(s, c)
CutAfter(s, c) ==
    IF IndexOf(s, c) = 0 THEN << >> ELSE SubSeq(s, IndexOf(s, c) + 1, Len(s))

(***************************************************************************)
(* encoding/json                                                           *)
(***************************************************************************)
\* json.Marshal of one character of a string: the quote, the backslash and
\* control characters are escaped; '<' '>' '&' and U+2028, U+2029 are written
\* as \uXXXX (HTML escaping is on); a byte that is not valid UTF-8 is written
\* as the escape of U+FFFD; every other character is copied.  An escape is one
\* token.
EncodeChar(c) ==
    CASE c = "\""     -> "\\\""
      [] c = "\\"     -> "\\\\"
      [] c = "LF"     -> "\\n"
      [] c = "CR"     -> "\\r"
      [] c = "TAB"    -> "\\t"
      [] c = "<"      -> "\\u003c"
      [] c = ">"      -> "\\u003e"
      [] c = "&"      -> "\\u0026"
      [] c = "U+2028" -> "\\u2028"
      [] c = "U+2029" -> "\\u2029"
      [] c = "BAD"    -> "\\ufffd"
      [] OTHER        -> c

\* json.Marshal of a string value (without the surrounding quotes).
EncodeString(s) == [k \in 1..Len(s) |-> EncodeChar(s[k])]

\* What a JSON parser on the receiving side reads back from one token.
DecodeChar(t) ==
    CASE t = "\\\""    -> "\""
      [] t = "\\\\"    -> "\\"
      [] t = "\\n"     -> "LF"
      [] t = "\\r"     -> "CR"
      [] t = "\\t"     -> "TAB"
      [] t = "\\u003c" -> "<"
      [] t = "\\u003e" -> ">"
      [] t = "\\u0026" -> "&"
      [] t = "\\u2028" -> "U+2028"
      [] t = "\\u2029" -> "U+2029"
      [] t = "\\ufffd" -> "U+FFFD"
      [] OTHER         -> t

DecodeString(w) == [k \in 1..Len(w) |-> DecodeChar(w[k])]

\* utf8.ValidString
ValidUTF8(s) == \A k \in 1..Len(s) : s[k] # "BAD"

(***************************************************************************)
(* time                                                                    *)
(***************************************************************************)
\* A time.Time in UTC (the zone of the function runtime): seconds since the
\* epoch and nanoseconds within the second.

\* t.AddDate(0, 0, days) in UTC.
AddDate(t, days) == [sec |-> t.sec + days * 86400, nsec |-> t.nsec]

\* t.Unix()
Unix(t) == t.sec

\* t.Format(time.RFC3339Nano), the string form dynamodbattribute stores a
\* time.Time as: the date-time to the second, then the fraction.
FormatRFC3339Nano(t) == <<t.sec, t.nsec>>

\* The next reading of the wall clock.
NextInstant(t) ==
    IF t.nsec + NanoStep >= 1000000000
    THEN [sec |-> t.sec + 1, nsec |-> 0]
    ELSE [sec |-> t.sec, nsec |-> t.nsec + NanoStep]


(***************************************************************************)
(* Configuration (process environment)                                     *)
(***************************************************************************)
Secret == <<"s", "3", "c">>
WrongToken == <<"w">>

\* The environments a deployment can have: the tracker host is a host name
\* ("j.x"), or a value no URL can be built from ("a b").
Environments ==
    { [SLACK_VERIFICATION_TOKEN |-> Secret,
       SLACK_ACCESS_TOKEN |-> <<"xoxb">>,
       JIRA_API_HOST |-> h] : h \in { <<"j", ".", "x">>, <<"a", " ", "b">> } }

(***************************************************************************)
(* net/url                                                                 *)
(***************************************************************************)
\* getScheme: the scheme is the run of letters (after the first character
\* also digits, '+', '-', '.') that a ':' ends; a ':' in first position is an
\* error ("missing protocol scheme"); anything else means no scheme.
SchemeEnd(s) ==
    LET stops == {k \in 1..Len(s) :
                    /\ s[k] \notin Letters
                    /\ k = 1 \/ s[k] \notin Digits \cup {"+", "-", "."}}
    IN IF stops = {} THEN 0
       ELSE CHOOSE k \in stops : \A j \in stops : k <= j

GetScheme(s) ==
    LET k == SchemeEnd(s) IN
    IF k = 0 \/ s[k] # ":"
    THEN [scheme |-> << >>, rest |-> s, ok |-> TRUE]
    ELSE IF k = 1
         THEN [scheme |-> << >>, rest |-> << >>, ok |-> FALSE]
         ELSE [scheme |-> SubSeq(s, 1, k - 1), rest |-> SubSeq(s, k + 1, Len(s)),
               ok |-> TRUE]

\* shouldEscape(c, encodeHost) is false: the ASCII characters a host may hold
\* unescaped.
HostBytes ==
    Letters \cup Digits \cup
      {"-", "_", ".", "~", "!", "$", "&", "'", "(", ")", "*", "+", ",", ";",
       "=", ":", "[", "]", "<", ">", "\""}

\* unescape(s, mode) finds no error in s: every '%' is followed by two
\* hexadecimal digits.  In a host, an escape of a byte below 0x80 other than
\* "%25" is an error.  In an IPv6 zone, an escape must be "%25", "%20" or that
\* of a byte a host may hold.  In both, an ASCII character that a host may
\* not hold unescaped is an error.
EscapesOK(s, mode) ==
    \A k \in 1..Len(s) :
      IF s[k] = "%"
      THEN /\ k + 2 <= Len(s)
           /\ s[k + 1] \in HexDigits /\ s[k + 2] \in HexDigits
           /\ mode = "encodeHost" =>
                \/ HexValue(s[k + 1]) >= 8
                \/ s[k + 1] = "2" /\ s[k + 2] = "5"
           /\ mode = "encodeZone" =>
                LET v == 16 * HexValue(s[k + 1]) + HexValue(s[k + 2]) IN
                \/ s[k + 1] = "2" /\ s[k + 2] = "5"
                \/ v = 32
                \/ v \in 33..126 /\ AsciiChar(v) \in HostBytes
      ELSE (mode \in {"encodeHost", "encodeZone"} /\ IsASCII(s[k]))
             => s[k] \in HostBytes

\* validOptionalPort: empty, or ':' and digits.
ValidOptionalPort(port) ==
    \/ port = << >>
    \/ /\ port[1] = ":"
       /\ \A k \in 2..Len(port) : port[k] \in Digits

\* strings.Index(s, "%25") + 1
ZoneIndex(s) ==
    LET at == {k \in 1..(Len(s) - 2) :
                 s[k] = "%" /\ s[k + 1] = "2" /\ s[k + 2] = "5"}
    IN IF at = {} THEN 0 ELSE CHOOSE k \in at : \A j \in at : k <= j

\* parseHost: an IP literal in brackets, with a port after the last ']' and
\* maybe a zone from the first "%25" to that ']'; or a name, with a port after
\* the last ':'.
HostOK(host) ==
    IF HasPrefix(host, <<"[">>)
    THEN LET i    == LastIndexOf(host, "]")
             zone == ZoneIndex(SubSeq(host, 1, i - 1))
         IN /\ i # 0
            /\ ValidOptionalPort(SubSeq(host, i + 1, Len(host)))
            /\ IF zone # 0
               THEN /\ EscapesOK(SubSeq(host, 1, zone - 1), "encodeHost")
                    /\ EscapesOK(SubSeq(host, zone, i - 1), "encodeZone")
                    /\ EscapesOK(SubSeq(host, i, Len(host)), "encodeHost")
               ELSE EscapesOK(host, "encodeHost")
    ELSE /\ LastIndexOf(host, ":") # 0
              => ValidOptionalPort(SubSeq(host, LastIndexOf(host, ":"), Len(host)))
         /\ EscapesOK(host, "encodeHost")

\* validUserinfo, and the unescaping of user name and password.
UserinfoOK(userinfo) ==
    /\ \A k \in 1..Len(userinfo) :
         userinfo[k] \in Letters \cup Digits \cup
           {"-", ".", "_", ":", "~", "!", "$", "&", "'", "(", ")", "*", "+",
            ",", ";", "=", "%", "@"}
    /\ EscapesOK(userinfo, "encodeUserPassword")

\* parseAuthority: [userinfo "@"] host
AuthorityOK(authority) ==
    LET at == LastIndexOf(authority, "@") IN
    /\ HostOK(SubSeq(authority, at + 1, Len(authority)))
    /\ at # 0 => UserinfoOK(SubSeq(authority, 1, at - 1))

\* url.Parse(raw), as far as its result matters here: the fragment is cut at
\* the first '#', the scheme taken off, the query cut at the first '?' (it is
\* not validated); what is left is opaque (a scheme, and no leading '/'), or
\* an authority after "//" and a path.
UrlParts(raw) ==
    LET u    == CutBefore(raw, "#")
        sch  == GetScheme(u)
        rest == CutBefore(sch.rest, "?")
        hasAuthority ==
            /\ sch.scheme # << >> \/ ~HasPrefix(rest, <<"/", "/", "/">>)
            /\ HasPrefix(rest, <<"/", "/">>)
        tail == SubSeq(rest, 3, Len(rest))
        authority == IF hasAuthority THEN CutBefore(tail, "/") ELSE << >>
    IN [control   |-> \E k \in 1..Len(u) : u[k] \in ControlChars,
        schemeOK  |-> sch.ok,
        scheme    |-> sch.scheme,
        opaque    |-> sch.scheme # << >> /\ ~HasPrefix(rest, <<"/">>),
        colon     |-> /\ sch.scheme = << >> /\ ~HasPrefix(rest, <<"/">>)
                      /\ IndexOf(CutBefore(rest, "/"), ":") # 0,
        authority |-> authority,
        host      |-> SubSeq(authority, LastIndexOf(authority, "@") + 1,
                             Len(authority)),
        path      |-> IF hasAuthority
                      THEN SubSeq(tail, Len(authority) + 1, Len(tail))
                      ELSE rest,
        fragment  |-> CutAfter(raw, "#")]

\* url.Parse(raw) returns no error: no ASCII control character (checked since
\* Go 1.12), a well-formed scheme, no colon in the first segment of a relative
\* path, a valid authority, valid percent-escapes in path and fragment.
\* http.NewRequest fails exactly when url.Parse does.
UrlParseOK(raw) ==
    LET p == UrlParts(raw) IN
    /\ ~p.control
    /\ p.schemeOK
    /\ \/ p.opaque
       \/ /\ ~p.colon
          /\ AuthorityOK(p.authority)
          /\ EscapesOK(p.path, "encodePath")
    /\ EscapesOK(p.fragment, "encodeFragment")

\* removeEmptyPort: a host that ends in an empty port loses the ':'.
RemoveEmptyPort(host) ==
    IF /\ LastIndexOf(host, ":") > LastIndexOf(host, "]")
       /\ host[Len(host)] = ":"
    THEN SubSeq(host, 1, Len(host) - 1)
    ELSE host

\* A request for raw can be built and handed to the network: raw parses, and
\* the transport accepts it (scheme http or https, a host once http.NewRequest
\* has removed an empty port).  Otherwise http.NewRequest or client.Do returns
\* an error and nothing is sent.
CanSend(raw) ==
    /\ UrlParseOK(raw)
    /\ [k \in 1..Len(UrlParts(raw).scheme) |-> ToLowerChar(UrlParts(raw).scheme[k])]
         \in {<<"h", "t", "t", "p">>, <<"h", "t", "t", "p", "s">>}
    /\ RemoveEmptyPort(UrlParts(raw).host) # << >>

\* url.ParseQuery gives a map from field name to the list of its values, here
\* percent-decoded already; a field the body lacks has the empty list (in Go
\* query[k] of an absent key is the nil slice), and query[k][0] of it panics.
HasValue(query, k) == Len(query[k]) > 0

\* query[k][0], read only where the handler has not panicked.
First(query, k) == IF HasValue(query, k) THEN query[k][1] ELSE EmptyString

\* Variant: an absent form field of the Command Handler reads as "".
PanicsOnlyOnPayload(b, fields) ==
    b.unparseable \/ ("payload" \in fields /\ ~HasValue(b.query, "payload"))

\* The parsing part of a handler panics: url.Parse failed and form is nil, so
\* form.RawQuery dereferences nil; or a field it indexes with [0] is absent.
Panics(b, fields) == b.unparseable \/ \E f \in fields : ~HasValue(b.query, f)

(***************************************************************************)
(* KanobugInteractiveComponent: Request, Bug                               *)
(***************************************************************************)
\* Request{} : the zero value json.Unmarshal starts from.
ZeroRequest ==
    [Type |-> EmptyString,
     Submission |-> [Summary |-> EmptyString, Product |-> EmptyString,
                     Details |-> EmptyString],
     CallbackID |-> EmptyString,
     User |-> [ID |-> EmptyString, Name |-> EmptyString],
     ActionTS |-> EmptyString,
     Token |-> EmptyString,
     ResponseURL |-> EmptyString]

NoTime == [sec |-> 0, nsec |-> 0]

NoBug ==
    [UserID |-> EmptyString, UserName |-> EmptyString, Summary |-> EmptyString,
     Product |-> EmptyString, Details |-> EmptyString,
     CreatedAt |-> NoTime, UpdatedAt |-> NoTime, TTL |-> 0]

NotApplicable == <<"N", "/", "A">>

\* Variant: empty details are kept empty.
DetailsKept(details) == details

DetailsOrDefault(details) ==
    IF Len(details) = 0 THEN NotApplicable ELSE details

\* Request.ToBug, with the reading of time.Now() as a parameter.
ToBug(request, now) ==
    [UserID    |-> request.User.ID,
     UserName  |-> request.User.Name,
     Summary   |-> request.Submission.Summary,
     Product   |-> request.Submission.Product,
     Details   |-> DetailsOrDefault(request.Submission.Details),
     CreatedAt |-> now,
     UpdatedAt |-> now,
     TTL       |-> 0]

\* strings.ToTitle(strings.Replace(bug.Product, "_", " ", -1))
\* The characters outside ASCII that unicode.ToTitle changes (the simple
\* title-case mappings of Unicode 14.0), and what it changes each to
\* (TitleTo, at the same position); a target in ASCII is written as itself.
TitleFrom ==
    <<"U+00B5", "U+00E0", "U+00E1", "U+00E2", "U+00E3", "U+00E4", "U+00E5",
      "U+00E6", "U+00E7", "U+00E8", "U+00E9", "U+00EA", "U+00EB", "U+00EC",
      "U+00ED", "U+00EE", "U+00EF", "U+00F0", "U+00F1", "U+00F2", "U+00F3",
      "U+00F4", "U+00F5", "U+00F6", "U+00F8", "U+00F9", "U+00FA", "U+00FB",
      "U+00FC", "U+00FD", "U+00FE", "U+00FF", "U+0101", "U+0103", "U+0105",
      "U+0107", "U+0109", "U+010B", "U+010D", "U+010F", "U+0111", "U+0113",
      "U+0115", "U+0117", "U+0119", "U+011B", "U+011D", "U+011F", "U+0121",
      "U+0123", "U+0125", "U+0127", "U+0129", "U+012B", "U+012D", "U+012F",
      "U+0131", "U+0133", "U+0135", "U+0137", "U+013A", "U+013C", "U+013E",
      "U+0140", "U+0142", "U+0144", "U+0146", "U+0148", "U+014B", "U+014D",
      "U+014F", "U+0151", "U+0153", "U+0155", "U+0157", "U+0159", "U+015B",
      "U+015D", "U+015F", "U+0161", "U+0163", "U+0165", "U+0167", "U+0169",
      "U+016B", "U+016D", "U+016F", "U+0171", "U+0173", "U+0175", "U+0177",
      "U+017A", "U+017C", "U+017E", "U+017F", "U+0180", "U+0183", "U+0185",
      "U+0188", "U+018C", "U+0192", "U+0195", "U+0199", "U+019A", "U+019E",
      "U+01A1", "U+01A3", "U+01A5", "U+01A8", "U+01AD", "U+01B0", "U+01B4",
      "U+01B6", "U+01B9", "U+01BD", "U+01BF", "U+01C4", "U+01C6", "U+01C7",
      "U+01C9", "U+01CA", "U+01CC", "U+01CE", "U+01D0", "U+01D2", "U+01D4",
      "U+01D6", "U+01D8", "U+01DA", "U+01DC", "U+01DD", "U+01DF", "U+01E1",
      "U+01E3", "U+01E5", "U+01E7", "U+01E9", "U+01EB", "U+01ED", "U+01EF",
      "U+01F1", "U+01F3", "U+01F5", "U+01F9", "U+01FB", "U+01FD", "U+01FF",
      "U+0201", "U+0203", "U+0205", "U+0207", "U+0209", "U+020B", "U+020D",
      "U+020F", "U+0211", "U+0213", "U+0215", "U+0217", "U+0219", "U+021B",
      "U+021D", "U+021F", "U+0223", "U+0225", "U+0227", "U+0229", "U+022B",
      "U+022D", "U+022F", "U+0231", "U+0233", "U+023C", "U+023F", "U+0240",
      "U+0242", "U+0247", "U+0249", "U+024B", "U+024D", "U+024F", "U+0250",
      "U+0251", "U+0252", "U+0253", "U+0254", "U+0256", "U+0257", "U+0259",
      "U+025B", "U+025C", "U+0260", "U+0261", "U+0263", "U+0265", "U+0266",
      "U+0268", "U+0269", "U+026A", "U+026B", "U+026C", "U+026F", "U+0271",
      "U+0272", "U+0275", "U+027D", "U+0280", "U+0282", "U+0283", "U+0287",
      "U+0288", "U+0289", "U+028A", "U+028B", "U+028C", "U+0292", "U+029D",
      "U+029E", "U+0345", "U+0371", "U+0373", "U+0377", "U+037B", "U+037C",
      "U+037D", "U+03AC", "U+03AD", "U+03AE", "U+03AF", "U+03B1", "U+03B2",
      "U+03B3", "U+03B4", "U+03B5", "U+03B6", "U+03B7", "U+03B8", "U+03B9",
      "U+03BA", "U+03BB", "U+03BC", "U+03BD", "U+03BE", "U+03BF", "U+03C0",
      "U+03C1", "U+03C2", "U+03C3", "U+03C4", "U+03C5", "U+03C6", "U+03C7",
      "U+03C8", "U+03C9", "U+03CA", "U+03CB", "U+03CC", "U+03CD", "U+03CE",
      "U+03D0", "U+03D1", "U+03D5", "U+03D6", "U+03D7", "U+03D9", "U+03DB",
      "U+03DD", "U+03DF", "U+03E1", "U+03E3", "U+03E5", "U+03E7", "U+03E9",
      "U+03EB", "U+03ED", "U+03EF", "U+03F0", "U+03F1", "U+03F2", "U+03F3",
      "U+03F5", "U+03F8", "U+03FB", "U+0430", "U+0431", "U+0432", "U+0433",
      "U+0434", "U+0435", "U+0436", "U+0437", "U+0438", "U+0439", "U+043A",
      "U+043B", "U+043C", "U+043D", "U+043E", "U+043F", "U+0440", "U+0441",
      "U+0442", "U+0443", "U+0444", "U+0445", "U+0446", "U+0447", "U+0448",
      "U+0449", "U+044A", "U+044B", "U+044C", "U+044D", "U+044E", "U+044F",
      "U+0450", "U+0451", "U+0452", "U+0453", "U+0454", "U+0455", "U+0456",
      "U+0457", "U+0458", "U+0459", "U+045A", "U+045B", "U+045C", "U+045D",
      "U+045E", "U+045F", "U+0461", "U+0463", "U+0465", "U+0467", "U+0469",
      "U+046B", "U+046D", "U+046F", "U+0471", "U+0473", "U+0475", "U+0477",
      "U+0479", "U+047B", "U+047D", "U+047F", "U+0481", "U+048B", "U+048D",
      "U+048F", "U+0491", "U+0493", "U+0495", "U+0497", "U+0499", "U+049B",
      "U+049D", "U+049F", "U+04A1", "U+04A3", "U+04A5", "U+04A7", "U+04A9",
      "U+04AB", "U+04AD", "U+04AF", "U+04B1", "U+04B3", "U+04B5", "U+04B7",
      "U+04B9", "U+04BB", "U+04BD", "U+04BF", "U+04C2", "U+04C4", "U+04C6",
      "U+04C8", "U+04CA", "U+04CC", "U+04CE", "U+04CF", "U+04D1", "U+04D3",
      "U+04D5", "U+04D7", "U+04D9", "U+04DB", "U+04DD", "U+04DF", "U+04E1",
      "U+04E3", "U+04E5", "U+04E7", "U+04E9", "U+04EB", "U+04ED", "U+04EF",
      "U+04F1", "U+04F3", "U+04F5", "U+04F7", "U+04F9", "U+04FB", "U+04FD",
      "U+04FF", "U+0501", "U+0503", "U+0505", "U+0507", "U+0509", "U+050B",
      "U+050D", "U+050F", "U+0511", "U+0513", "U+0515", "U+0517", "U+0519",
      "U+051B", "U+051D", "U+051F", "U+0521", "U+0523", "U+0525", "U+0527",
      "U+0529", "U+052B", "U+052D", "U+052F", "U+0561", "U+0562", "U+0563",
      "U+0564", "U+0565", "U+0566", "U+0567", "U+0568", "U+0569", "U+056A",
      "U+056B", "U+056C", "U+056D", "U+056E", "U+056F", "U+0570", "U+0571",
      "U+0572", "U+0573", "U+0574", "U+0575", "U+0576", "U+0577", "U+0578",
      "U+0579", "U+057A", "U+057B", "U+057C", "U+057D", "U+057E", "U+057F",
      "U+0580", "U+0581", "U+0582", "U+0583", "U+0584", "U+0585", "U+0586",
      "U+13F8", "U+13F9", "U+13FA", "U+13FB", "U+13FC", "U+13FD", "U+1C80",
      "U+1C81", "U+1C82", "U+1C83", "U+1C84", "U+1C85", "U+1C86", "U+1C87",
      "U+1C88", "U+1D79", "U+1D7D", "U+1D8E", "U+1E01", "U+1E03", "U+1E05",
      "U+1E07", "U+1E09", "U+1E0B", "U+1E0D", "U+1E0F", "U+1E11", "U+1E13",
      "U+1E15", "U+1E17", "U+1E19", "U+1E1B", "U+1E1D", "U+1E1F", "U+1E21",
      "U+1E23", "U+1E25", "U+1E27", "U+1E29", "U+1E2B", "U+1E2D", "U+1E2F",
      "U+1E31", "U+1E33", "U+1E35", "U+1E37", "U+1E39", "U+1E3B", "U+1E3D",
      "U+1E3F", "U+1E41", "U+1E43", "U+1E45", "U+1E47", "U+1E49", "U+1E4B",
      "U+1E4D", "U+1E4F", "U+1E51", "U+1E53", "U+1E55", "U+1E57", "U+1E59",
      "U+1E5B", "U+1E5D", "U+1E5F", "U+1E61", "U+1E63", "U+1E65", "U+1E67",
      "U+1E69", "U+1E6B", "U+1E6D", "U+1E6F", "U+1E71", "U+1E73", "U+1E75",
      "U+1E77", "U+1E79", "U+1E7B", "U+1E7D", "U+1E7F", "U+1E81", "U+1E83",
      "U+1E85", "U+1E87", "U+1E89", "U+1E8B", "U+1E8D", "U+1E8F", "U+1E91",
      "U+1E93", "U+1E95", "U+1E9B", "U+1EA1", "U+1EA3", "U+1EA5", "U+1EA7",
      "U+1EA9", "U+1EAB", "U+1EAD", "U+1EAF", "U+1EB1", "U+1EB3", "U+1EB5",
      "U+1EB7", "U+1EB9", "U+1EBB", "U+1EBD", "U+1EBF", "U+1EC1", "U+1EC3",
      "U+1EC5", "U+1EC7", "U+1EC9", "U+1ECB", "U+1ECD", "U+1ECF", "U+1ED1",
      "U+1ED3", "U+1ED5", "U+1ED7", "U+1ED9", "U+1EDB", "U+1EDD", "U+1EDF",
      "U+1EE1", "U+1EE3", "U+1EE5", "U+1EE7", "U+1EE9", "U+1EEB", "U+1EED",
      "U+1EEF", "U+1EF1", "U+1EF3", "U+1EF5", "U+1EF7", "U+1EF9", "U+1EFB",
      "U+1EFD", "U+1EFF", "U+1F00", "U+1F01", "U+1F02", "U+1F03", "U+1F04",
      "U+1F05", "U+1F06", "U+1F07", "U+1F10", "U+1F11", "U+1F12", "U+1F13",
      "U+1F14", "U+1F15", "U+1F20", "U+1F21", "U+1F22", "U+1F23", "U+1F24",
      "U+1F25", "U+1F26", "U+1F27", "U+1F30", "U+1F31", "U+1F32", "U+1F33",
      "U+1F34", "U+1F35", "U+1F36", "U+1F37", "U+1F40", "U+1F41", "U+1F42",
      "U+1F43", "U+1F44", "U+1F45", "U+1F51", "U+1F53", "U+1F55", "U+1F57",
      "U+1F60", "U+1F61", "U+1F62", "U+1F63", "U+1F64", "U+1F65", "U+1F66",
      "U+1F67", "U+1F70", "U+1F71", "U+1F72", "U+1F73", "U+1F74", "U+1F75",
      "U+1F76", "U+1F77", "U+1F78", "U+1F79", "U+1F7A", "U+1F7B", "U+1F7C",
      "U+1F7D", "U+1F80", "U+1F81", "U+1F82", "U+1F83", "U+1F84", "U+1F85",
      "U+1F86", "U+1F87", "U+1F90", "U+1F91", "U+1F92", "U+1F93", "U+1F94",
      "U+1F95", "U+1F96", "U+1F97", "U+1FA0", "U+1FA1", "U+1FA2", "U+1FA3",
      "U+1FA4", "U+1FA5", "U+1FA6", "U+1FA7", "U+1FB0", "U+1FB1", "U+1FB3",
      "U+1FBE", "U+1FC3", "U+1FD0", "U+1FD1", "U+1FE0", "U+1FE1", "U+1FE5",
      "U+1FF3", "U+214E", "U+2170", "U+2171", "U+2172", "U+2173", "U+2174",
      "U+2175", "U+2176", "U+2177", "U+2178", "U+2179", "U+217A", "U+217B",
      "U+217C", "U+217D", "U+217E", "U+217F", "U+2184", "U+24D0", "U+24D1",
      "U+24D2", "U+24D3", "U+24D4", "U+24D5", "U+24D6", "U+24D7", "U+24D8",
      "U+24D9", "U+24DA", "U+24DB", "U+24DC", "U+24DD", "U+24DE", "U+24DF",
      "U+24E0", "U+24E1", "U+24E2", "U+24E3", "U+24E4", "U+24E5", "U+24E6",
      "U+24E7", "U+24E8", "U+24E9", "U+2C30", "U+2C31", "U+2C32", "U+2C33",
      "U+2C34", "U+2C35", "U+2C36", "U+2C37", "U+2C38", "U+2C39", "U+2C3A",
      "U+2C3B", "U+2C3C", "U+2C3D", "U+2C3E", "U+2C3F", "U+2C40", "U+2C41",
      "U+2C42", "U+2C43", "U+2C44", "U+2C45", "U+2C46", "U+2C47", "U+2C48",
      "U+2C49", "U+2C4A", "U+2C4B", "U+2C4C", "U+2C4D", "U+2C4E", "U+2C4F",
      "U+2C50", "U+2C51", "U+2C52", "U+2C53", "U+2C54", "U+2C55", "U+2C56",
      "U+2C57", "U+2C58", "U+2C59", "U+2C5A", "U+2C5B", "U+2C5C", "U+2C5D",
      "U+2C5E", "U+2C5F", "U+2C61", "U+2C65", "U+2C66", "U+2C68", "U+2C6A",
      "U+2C6C", "U+2C73", "U+2C76", "U+2C81", "U+2C83", "U+2C85", "U+2C87",
      "U+2C89", "U+2C8B", "U+2C8D", "U+2C8F", "U+2C91", "U+2C93", "U+2C95",
      "U+2C97", "U+2C99", "U+2C9B", "U+2C9D", "U+2C9F", "U+2CA1", "U+2CA3",
      "U+2CA5", "U+2CA7", "U+2CA9", "U+2CAB", "U+2CAD", "U+2CAF", "U+2CB1",
      "U+2CB3", "U+2CB5", "U+2CB7", "U+2CB9", "U+2CBB", "U+2CBD", "U+2CBF",
      "U+2CC1", "U+2CC3", "U+2CC5", "U+2CC7", "U+2CC9", "U+2CCB", "U+2CCD",
      "U+2CCF", "U+2CD1", "U+2CD3", "U+2CD5", "U+2CD7", "U+2CD9", "U+2CDB",
      "U+2CDD", "U+2CDF", "U+2CE1", "U+2CE3", "U+2CEC", "U+2CEE", "U+2CF3",
      "U+2D00", "U+2D01", "U+2D02", "U+2D03", "U+2D04", "U+2D05", "U+2D06",
      "U+2D07", "U+2D08", "U+2D09", "U+2D0A", "U+2D0B", "U+2D0C", "U+2D0D",
      "U+2D0E", "U+2D0F", "U+2D10", "U+2D11", "U+2D12", "U+2D13", "U+2D14",
      "U+2D15", "U+2D16", "U+2D17", "U+2D18", "U+2D19", "U+2D1A", "U+2D1B",
      "U+2D1C", "U+2D1D", "U+2D1E", "U+2D1F", "U+2D20", "U+2D21", "U+2D22",
      "U+2D23", "U+2D24", "U+2D25", "U+2D27", "U+2D2D", "U+A641", "U+A643",
      "U+A645", "U+A647", "U+A649", "U+A64B", "U+A64D", "U+A64F", "U+A651",
      "U+A653", "U+A655", "U+A657", "U+A659", "U+A65B", "U+A65D", "U+A65F",
      "U+A661", "U+A663", "U+A665", "U+A667", "U+A669", "U+A66B", "U+A66D",
      "U+A681", "U+A683", "U+A685", "U+A687", "U+A689", "U+A68B", "U+A68D",
      "U+A68F", "U+A691", "U+A693", "U+A695", "U+A697", "U+A699", "U+A69B",
      "U+A723", "U+A725", "U+A727", "U+A729", "U+A72B", "U+A72D", "U+A72F",
      "U+A733", "U+A735", "U+A737", "U+A739", "U+A73B", "U+A73D", "U+A73F",
      "U+A741", "U+A743", "U+A745", "U+A747", "U+A749", "U+A74B", "U+A74D",
      "U+A74F", "U+A751", "U+A753", "U+A755", "U+A757", "U+A759", "U+A75B",
      "U+A75D", "U+A75F", "U+A761", "U+A763", "U+A765", "U+A767", "U+A769",
      "U+A76B", "U+A76D", "U+A76F", "U+A77A", "U+A77C", "U+A77F", "U+A781",
      "U+A783", "U+A785", "U+A787", "U+A78C", "U+A791", "U+A793", "U+A794",
      "U+A797", "U+A799", "U+A79B", "U+A79D", "U+A79F", "U+A7A1", "U+A7A3",
      "U+A7A5", "U+A7A7", "U+A7A9", "U+A7B5", "U+A7B7", "U+A7B9", "U+A7BB",
      "U+A7BD", "U+A7BF", "U+A7C1", "U+A7C3", "U+A7C8", "U+A7CA", "U+A7D1",
      "U+A7D7", "U+A7D9", "U+A7F6", "U+AB53", "U+AB70", "U+AB71", "U+AB72",
      "U+AB73", "U+AB74", "U+AB75", "U+AB76", "U+AB77", "U+AB78", "U+AB79",
      "U+AB7A", "U+AB7B", "U+AB7C", "U+AB7D", "U+AB7E", "U+AB7F", "U+AB80",
      "U+AB81", "U+AB82", "U+AB83", "U+AB84", "U+AB85", "U+AB86", "U+AB87",
      "U+AB88", "U+AB89", "U+AB8A", "U+AB8B", "U+AB8C", "U+AB8D", "U+AB8E",
      "U+AB8F", "U+AB90", "U+AB91", "U+AB92", "U+AB93", "U+AB94", "U+AB95",
      "U+AB96", "U+AB97", "U+AB98", "U+AB99", "U+AB9A", "U+AB9B", "U+AB9C",
      "U+AB9D", "U+AB9E", "U+AB9F", "U+ABA0", "U+ABA1", "U+ABA2", "U+ABA3",
      "U+ABA4", "U+ABA5", "U+ABA6", "U+ABA7", "U+ABA8", "U+ABA9", "U+ABAA",
      "U+ABAB", "U+ABAC", "U+ABAD", "U+ABAE", "U+ABAF", "U+ABB0", "U+ABB1",
      "U+ABB2", "U+ABB3", "U+ABB4", "U+ABB5", "U+ABB6", "U+ABB7", "U+ABB8",
      "U+ABB9", "U+ABBA", "U+ABBB", "U+ABBC", "U+ABBD", "U+ABBE", "U+ABBF",
      "U+FF41", "U+FF42", "U+FF43", "U+FF44", "U+FF45", "U+FF46", "U+FF47",
      "U+FF48", "U+FF49", "U+FF4A", "U+FF4B", "U+FF4C", "U+FF4D", "U+FF4E",
      "U+FF4F", "U+FF50", "U+FF51", "U+FF52", "U+FF53", "U+FF54", "U+FF55",
      "U+FF56", "U+FF57", "U+FF58", "U+FF59", "U+FF5A", "U+10428",
      "U+10429", "U+1042A", "U+1042B", "U+1042C", "U+1042D", "U+1042E",
      "U+1042F", "U+10430", "U+10431", "U+10432", "U+10433", "U+10434",
      "U+10435", "U+10436", "U+10437", "U+10438", "U+10439", "U+1043A",
      "U+1043B", "U+1043C", "U+1043D", "U+1043E", "U+1043F", "U+10440",
      "U+10441", "U+10442", "U+10443", "U+10444", "U+10445", "U+10446",
      "U+10447", "U+10448", "U+10449", "U+1044A", "U+1044B", "U+1044C",
      "U+1044D", "U+1044E", "U+1044F", "U+104D8", "U+104D9", "U+104DA",
      "U+104DB", "U+104DC", "U+104DD", "U+104DE", "U+104DF", "U+104E0",
      "U+104E1", "U+104E2", "U+104E3", "U+104E4", "U+104E5", "U+104E6",
      "U+104E7", "U+104E8", "U+104E9", "U+104EA", "U+104EB", "U+104EC",
      "U+104ED", "U+104EE", "U+104EF", "U+104F0", "U+104F1", "U+104F2",
      "U+104F3", "U+104F4", "U+104F5", "U+104F6", "U+104F7", "U+104F8",
      "U+104F9", "U+104FA", "U+104FB", "U+10597", "U+10598", "U+10599",
      "U+1059A", "U+1059B", "U+1059C", "U+1059D", "U+1059E", "U+1059F",
      "U+105A0", "U+105A1", "U+105A3", "U+105A4", "U+105A5", "U+105A6",
      "U+105A7", "U+105A8", "U+105A9", "U+105AA", "U+105AB", "U+105AC",
      "U+105AD", "U+105AE", "U+105AF", "U+105B0", "U+105B1", "U+105B3",
      "U+105B4", "U+105B5", "U+105B6", "U+105B7", "U+105B8", "U+105B9",
      "U+105BB", "U+105BC", "U+10CC0", "U+10CC1", "U+10CC2", "U+10CC3",
      "U+10CC4", "U+10CC5", "U+10CC6", "U+10CC7", "U+10CC8", "U+10CC9",
      "U+10CCA", "U+10CCB", "U+10CCC", "U+10CCD", "U+10CCE", "U+10CCF",
      "U+10CD0", "U+10CD1", "U+10CD2", "U+10CD3", "U+10CD4", "U+10CD5",
      "U+10CD6", "U+10CD7", "U+10CD8", "U+10CD9", "U+10CDA", "U+10CDB",
      "U+10CDC", "U+10CDD", "U+10CDE", "U+10CDF", "U+10CE0", "U+10CE1",
      "U+10CE2", "U+10CE3", "U+10CE4", "U+10CE5", "U+10CE6", "U+10CE7",
      "U+10CE8", "U+10CE9", "U+10CEA", "U+10CEB", "U+10CEC", "U+10CED",
      "U+10CEE", "U+10CEF", "U+10CF0", "U+10CF1", "U+10CF2", "U+118C0",
      "U+118C1", "U+118C2", "U+118C3", "U+118C4", "U+118C5", "U+118C6",
      "U+118C7", "U+118C8", "U+118C9", "U+118CA", "U+118CB", "U+118CC",
      "U+118CD", "U+118CE", "U+118CF", "U+118D0", "U+118D1", "U+118D2",
      "U+118D3", "U+118D4", "U+118D5", "U+118D6", "U+118D7", "U+118D8",
      "U+118D9", "U+118DA", "U+118DB", "U+118DC", "U+118DD", "U+118DE",
      "U+118DF", "U+16E60", "U+16E61", "U+16E62", "U+16E63", "U+16E64",
      "U+16E65", "U+16E66", "U+16E67", "U+16E68", "U+16E69", "U+16E6A",
      "U+16E6B", "U+16E6C", "U+16E6D", "U+16E6E", "U+16E6F", "U+16E70",
      "U+16E71", "U+16E72", "U+16E73", "U+16E74", "U+16E75", "U+16E76",
      "U+16E77", "U+16E78", "U+16E79", "U+16E7A", "U+16E7B", "U+16E7C",
      "U+16E7D", "U+16E7E", "U+16E7F", "U+1E922", "U+1E923", "U+1E924",
      "U+1E925", "U+1E926", "U+1E927", "U+1E928", "U+1E929", "U+1E92A",
      "U+1E92B", "U+1E92C", "U+1E92D", "U+1E92E", "U+1E92F", "U+1E930",
      "U+1E931", "U+1E932", "U+1E933", "U+1E934", "U+1E935", "U+1E936",
      "U+1E937", "U+1E938", "U+1E939", "U+1E93A", "U+1E93B", "U+1E93C",
      "U+1E93D", "U+1E93E", "U+1E93F", "U+1E940", "U+1E941", "U+1E942",
      "U+1E943">>

TitleTo ==
    <<"U+039C", "U+00C0", "U+00C1", "U+00C2", "U+00C3", "U+00C4", "U+00C5",
      "U+00C6", "U+00C7", "U+00C8", "U+00C9", "U+00CA", "U+00CB", "U+00CC",
      "U+00CD", "U+00CE", "U+00CF", "U+00D0", "U+00D1", "U+00D2", "U+00D3",
      "U+00D4", "U+00D5", "U+00D6", "U+00D8", "U+00D9", "U+00DA", "U+00DB",
      "U+00DC", "U+00DD", "U+00DE", "U+0178", "U+0100", "U+0102", "U+0104",
      "U+0106", "U+0108", "U+010A", "U+010C", "U+010E", "U+0110", "U+0112",
      "U+0114", "U+0116", "U+0118", "U+011A", "U+011C", "U+011E", "U+0120",
      "U+0122", "U+0124", "U+0126", "U+0128", "U+012A", "U+012C", "U+012E",
      "I", "U+0132", "U+0134", "U+0136", "U+0139", "U+013B", "U+013D",
      "U+013F", "U+0141", "U+0143", "U+0145", "U+0147", "U+014A", "U+014C",
      "U+014E", "U+0150", "U+0152", "U+0154", "U+0156", "U+0158", "U+015A",
      "U+015C", "U+015E", "U+0160", "U+0162", "U+0164", "U+0166", "U+0168",
      "U+016A", "U+016C", "U+016E", "U+0170", "U+0172", "U+0174", "U+0176",
      "U+0179", "U+017B", "U+017D", "S", "U+0243", "U+0182", "U+0184",
      "U+0187", "U+018B", "U+0191", "U+01F6", "U+0198", "U+023D", "U+0220",
      "U+01A0", "U+01A2", "U+01A4", "U+01A7", "U+01AC", "U+01AF", "U+01B3",
      "U+01B5", "U+01B8", "U+01BC", "U+01F7", "U+01C5", "U+01C5", "U+01C8",
      "U+01C8", "U+01CB", "U+01CB", "U+01CD", "U+01CF", "U+01D1", "U+01D3",
      "U+01D5", "U+01D7", "U+01D9", "U+01DB", "U+018E", "U+01DE", "U+01E0",
      "U+01E2", "U+01E4", "U+01E6", "U+01E8", "U+01EA", "U+01EC", "U+01EE",
      "U+01F2", "U+01F2", "U+01F4", "U+01F8", "U+01FA", "U+01FC", "U+01FE",
      "U+0200", "U+0202", "U+0204", "U+0206", "U+0208", "U+020A", "U+020C",
      "U+020E", "U+0210", "U+0212", "U+0214", "U+0216", "U+0218", "U+021A",
      "U+021C", "U+021E", "U+0222", "U+0224", "U+0226", "U+0228", "U+022A",
      "U+022C", "U+022E", "U+0230", "U+0232", "U+023B", "U+2C7E", "U+2C7F",
      "U+0241", "U+0246", "U+0248", "U+024A", "U+024C", "U+024E", "U+2C6F",
      "U+2C6D", "U+2C70", "U+0181", "U+0186", "U+0189", "U+018A", "U+018F",
      "U+0190", "U+A7AB", "U+0193", "U+A7AC", "U+0194", "U+A78D", "U+A7AA",
      "U+0197", "U+0196", "U+A7AE", "U+2C62", "U+A7AD", "U+019C", "U+2C6E",
      "U+019D", "U+019F", "U+2C64", "U+01A6", "U+A7C5", "U+01A9", "U+A7B1",
      "U+01AE", "U+0244", "U+01B1", "U+01B2", "U+0245", "U+01B7", "U+A7B2",
      "U+A7B0", "U+0399", "U+0370", "U+0372", "U+0376", "U+03FD", "U+03FE",
      "U+03FF", "U+0386", "U+0388", "U+0389", "U+038A", "U+0391", "U+0392",
      "U+0393", "U+0394", "U+0395", "U+0396", "U+0397", "U+0398", "U+0399",
      "U+039A", "U+039B", "U+039C", "U+039D", "U+039E", "U+039F", "U+03A0",
      "U+03A1", "U+03A3", "U+03A3", "U+03A4", "U+03A5", "U+03A6", "U+03A7",
      "U+03A8", "U+03A9", "U+03AA", "U+03AB", "U+038C", "U+038E", "U+038F",
      "U+0392", "U+0398", "U+03A6", "U+03A0", "U+03CF", "U+03D8", "U+03DA",
      "U+03DC", "U+03DE", "U+03E0", "U+03E2", "U+03E4", "U+03E6", "U+03E8",
      "U+03EA", "U+03EC", "U+03EE", "U+039A", "U+03A1", "U+03F9", "U+037F",
      "U+0395", "U+03F7", "U+03FA", "U+0410", "U+0411", "U+0412", "U+0413",
      "U+0414", "U+0415", "U+0416", "U+0417", "U+0418", "U+0419", "U+041A",
      "U+041B", "U+041C", "U+041D", "U+041E", "U+041F", "U+0420", "U+0421",
      "U+0422", "U+0423", "U+0424", "U+0425", "U+0426", "U+0427", "U+0428",
      "U+0429", "U+042A", "U+042B", "U+042C", "U+042D", "U+042E", "U+042F",
      "U+0400", "U+0401", "U+0402", "U+0403", "U+0404", "U+0405", "U+0406",
      "U+0407", "U+0408", "U+0409", "U+040A", "U+040B", "U+040C", "U+040D",
      "U+040E", "U+040F", "U+0460", "U+0462", "U+0464", "U+0466", "U+0468",
      "U+046A", "U+046C", "U+046E", "U+0470", "U+0472", "U+0474", "U+0476",
      "U+0478", "U+047A", "U+047C", "U+047E", "U+0480", "U+048A", "U+048C",
      "U+048E", "U+0490", "U+0492", "U+0494", "U+0496", "U+0498", "U+049A",
      "U+049C", "U+049E", "U+04A0", "U+04A2", "U+04A4", "U+04A6", "U+04A8",
      "U+04AA", "U+04AC", "U+04AE", "U+04B0", "U+04B2", "U+04B4", "U+04B6",
      "U+04B8", "U+04BA", "U+04BC", "U+04BE", "U+04C1", "U+04C3", "U+04C5",
      "U+04C7", "U+04C9", "U+04CB", "U+04CD", "U+04C0", "U+04D0", "U+04D2",
      "U+04D4", "U+04D6", "U+04D8", "U+04DA", "U+04DC", "U+04DE", "U+04E0",
      "U+04E2", "U+04E4", "U+04E6", "U+04E8", "U+04EA", "U+04EC", "U+04EE",
      "U+04F0", "U+04F2", "U+04F4", "U+04F6", "U+04F8", "U+04FA", "U+04FC",
      "U+04FE", "U+0500", "U+0502", "U+0504", "U+0506", "U+0508", "U+050A",
      "U+050C", "U+050E", "U+0510", "U+0512", "U+0514", "U+0516", "U+0518",
      "U+051A", "U+051C", "U+051E", "U+0520", "U+0522", "U+0524", "U+0526",
      "U+0528", "U+052A", "U+052C", "U+052E", "U+0531", "U+0532", "U+0533",
      "U+0534", "U+0535", "U+0536", "U+0537", "U+0538", "U+0539", "U+053A",
      "U+053B", "U+053C", "U+053D", "U+053E", "U+053F", "U+0540", "U+0541",
      "U+0542", "U+0543", "U+0544", "U+0545", "U+0546", "U+0547", "U+0548",
      "U+0549", "U+054A", "U+054B", "U+054C", "U+054D", "U+054E", "U+054F",
      "U+0550", "U+0551", "U+0552", "U+0553", "U+0554", "U+0555", "U+0556",
      "U+13F0", "U+13F1", "U+13F2", "U+13F3", "U+13F4", "U+13F5", "U+0412",
      "U+0414", "U+041E", "U+0421", "U+0422", "U+0422", "U+042A", "U+0462",
      "U+A64A", "U+A77D", "U+2C63", "U+A7C6", "U+1E00", "U+1E02", "U+1E04",
      "U+1E06", "U+1E08", "U+1E0A", "U+1E0C", "U+1E0E", "U+1E10", "U+1E12",
      "U+1E14", "U+1E16", "U+1E18", "U+1E1A", "U+1E1C", "U+1E1E", "U+1E20",
      "U+1E22", "U+1E24", "U+1E26", "U+1E28", "U+1E2A", "U+1E2C", "U+1E2E",
      "U+1E30", "U+1E32", "U+1E34", "U+1E36", "U+1E38", "U+1E3A", "U+1E3C",
      "U+1E3E", "U+1E40", "U+1E42", "U+1E44", "U+1E46", "U+1E48", "U+1E4A",
      "U+1E4C", "U+1E4E", "U+1E50", "U+1E52", "U+1E54", "U+1E56", "U+1E58",
      "U+1E5A", "U+1E5C", "U+1E5E", "U+1E60", "U+1E62", "U+1E64", "U+1E66",
      "U+1E68", "U+1E6A", "U+1E6C", "U+1E6E", "U+1E70", "U+1E72", "U+1E74",
      "U+1E76", "U+1E78", "U+1E7A", "U+1E7C", "U+1E7E", "U+1E80", "U+1E82",
      "U+1E84", "U+1E86", "U+1E88", "U+1E8A", "U+1E8C", "U+1E8E", "U+1E90",
      "U+1E92", "U+1E94", "U+1E60", "U+1EA0", "U+1EA2", "U+1EA4", "U+1EA6",
      "U+1EA8", "U+1EAA", "U+1EAC", "U+1EAE", "U+1EB0", "U+1EB2", "U+1EB4",
      "U+1EB6", "U+1EB8", "U+1EBA", "U+1EBC", "U+1EBE", "U+1EC0", "U+1EC2",
      "U+1EC4", "U+1EC6", "U+1EC8", "U+1ECA", "U+1ECC", "U+1ECE", "U+1ED0",
      "U+1ED2", "U+1ED4", "U+1ED6", "U+1ED8", "U+1EDA", "U+1EDC", "U+1EDE",
      "U+1EE0", "U+1EE2", "U+1EE4", "U+1EE6", "U+1EE8", "U+1EEA", "U+1EEC",
      "U+1EEE", "U+1EF0", "U+1EF2", "U+1EF4", "U+1EF6", "U+1EF8", "U+1EFA",
      "U+1EFC", "U+1EFE", "U+1F08", "U+1F09", "U+1F0A", "U+1F0B", "U+1F0C",
      "U+1F0D", "U+1F0E", "U+1F0F", "U+1F18", "U+1F19", "U+1F1A", "U+1F1B",
      "U+1F1C", "U+1F1D", "U+1F28", "U+1F29", "U+1F2A", "U+1F2B", "U+1F2C",
      "U+1F2D", "U+1F2E", "U+1F2F", "U+1F38", "U+1F39", "U+1F3A", "U+1F3B",
      "U+1F3C", "U+1F3D", "U+1F3E", "U+1F3F", "U+1F48", "U+1F49", "U+1F4A",
      "U+1F4B", "U+1F4C", "U+1F4D", "U+1F59", "U+1F5B", "U+1F5D", "U+1F5F",
      "U+1F68", "U+1F69", "U+1F6A", "U+1F6B", "U+1F6C", "U+1F6D", "U+1F6E",
      "U+1F6F", "U+1FBA", "U+1FBB", "U+1FC8", "U+1FC9", "U+1FCA", "U+1FCB",
      "U+1FDA", "U+1FDB", "U+1FF8", "U+1FF9", "U+1FEA", "U+1FEB", "U+1FFA",
      "U+1FFB", "U+1F88", "U+1F89", "U+1F8A", "U+1F8B", "U+1F8C", "U+1F8D",
      "U+1F8E", "U+1F8F", "U+1F98", "U+1F99", "U+1F9A", "U+1F9B", "U+1F9C",
      "U+1F9D", "U+1F9E", "U+1F9F", "U+1FA8", "U+1FA9", "U+1FAA", "U+1FAB",
      "U+1FAC", "U+1FAD", "U+1FAE", "U+1FAF", "U+1FB8", "U+1FB9", "U+1FBC",
      "U+0399", "U+1FCC", "U+1FD8", "U+1FD9", "U+1FE8", "U+1FE9", "U+1FEC",
      "U+1FFC", "U+2132", "U+2160", "U+2161", "U+2162", "U+2163", "U+2164",
      "U+2165", "U+2166", "U+2167", "U+2168", "U+2169", "U+216A", "U+216B",
      "U+216C", "U+216D", "U+216E", "U+216F", "U+2183", "U+24B6", "U+24B7",
      "U+24B8", "U+24B9", "U+24BA", "U+24BB", "U+24BC", "U+24BD", "U+24BE",
      "U+24BF", "U+24C0", "U+24C1", "U+24C2", "U+24C3", "U+24C4", "U+24C5",
      "U+24C6", "U+24C7", "U+24C8", "U+24C9", "U+24CA", "U+24CB", "U+24CC",
      "U+24CD", "U+24CE", "U+24CF", "U+2C00", "U+2C01", "U+2C02", "U+2C03",
      "U+2C04", "U+2C05", "U+2C06", "U+2C07", "U+2C08", "U+2C09", "U+2C0A",
      "U+2C0B", "U+2C0C", "U+2C0D", "U+2C0E", "U+2C0F", "U+2C10", "U+2C11",
      "U+2C12", "U+2C13", "U+2C14", "U+2C15", "U+2C16", "U+2C17", "U+2C18",
      "U+2C19", "U+2C1A", "U+2C1B", "U+2C1C", "U+2C1D", "U+2C1E", "U+2C1F",
      "U+2C20", "U+2C21", "U+2C22", "U+2C23", "U+2C24", "U+2C25", "U+2C26",
      "U+2C27", "U+2C28", "U+2C29", "U+2C2A", "U+2C2B", "U+2C2C", "U+2C2D",
      "U+2C2E", "U+2C2F", "U+2C60", "U+023A", "U+023E", "U+2C67", "U+2C69",
      "U+2C6B", "U+2C72", "U+2C75", "U+2C80", "U+2C82", "U+2C84", "U+2C86",
      "U+2C88", "U+2C8A", "U+2C8C", "U+2C8E", "U+2C90", "U+2C92", "U+2C94",
      "U+2C96", "U+2C98", "U+2C9A", "U+2C9C", "U+2C9E", "U+2CA0", "U+2CA2",
      "U+2CA4", "U+2CA6", "U+2CA8", "U+2CAA", "U+2CAC", "U+2CAE", "U+2CB0",
      "U+2CB2", "U+2CB4", "U+2CB6", "U+2CB8", "U+2CBA", "U+2CBC", "U+2CBE",
      "U+2CC0", "U+2CC2", "U+2CC4", "U+2CC6", "U+2CC8", "U+2CCA", "U+2CCC",
      "U+2CCE", "U+2CD0", "U+2CD2", "U+2CD4", "U+2CD6", "U+2CD8", "U+2CDA",
      "U+2CDC", "U+2CDE", "U+2CE0", "U+2CE2", "U+2CEB", "U+2CED", "U+2CF2",
      "U+10A0", "U+10A1", "U+10A2", "U+10A3", "U+10A4", "U+10A5", "U+10A6",
      "U+10A7", "U+10A8", "U+10A9", "U+10AA", "U+10AB", "U+10AC", "U+10AD",
      "U+10AE", "U+10AF", "U+10B0", "U+10B1", "U+10B2", "U+10B3", "U+10B4",
      "U+10B5", "U+10B6", "U+10B7", "U+10B8", "U+10B9", "U+10BA", "U+10BB",
      "U+10BC", "U+10BD", "U+10BE", "U+10BF", "U+10C0", "U+10C1", "U+10C2",
      "U+10C3", "U+10C4", "U+10C5", "U+10C7", "U+10CD", "U+A640", "U+A642",
      "U+A644", "U+A646", "U+A648", "U+A64A", "U+A64C", "U+A64E", "U+A650",
      "U+A652", "U+A654", "U+A656", "U+A658", "U+A65A", "U+A65C", "U+A65E",
      "U+A660", "U+A662", "U+A664", "U+A666", "U+A668", "U+A66A", "U+A66C",
      "U+A680", "U+A682", "U+A684", "U+A686", "U+A688", "U+A68A", "U+A68C",
      "U+A68E", "U+A690", "U+A692", "U+A694", "U+A696", "U+A698", "U+A69A",
      "U+A722", "U+A724", "U+A726", "U+A728", "U+A72A", "U+A72C", "U+A72E",
      "U+A732", "U+A734", "U+A736", "U+A738", "U+A73A", "U+A73C", "U+A73E",
      "U+A740", "U+A742", "U+A744", "U+A746", "U+A748", "U+A74A", "U+A74C",
      "U+A74E", "U+A750", "U+A752", "U+A754", "U+A756", "U+A758", "U+A75A",
      "U+A75C", "U+A75E", "U+A760", "U+A762", "U+A764", "U+A766", "U+A768",
      "U+A76A", "U+A76C", "U+A76E", "U+A779", "U+A77B", "U+A77E", "U+A780",
      "U+A782", "U+A784", "U+A786", "U+A78B", "U+A790", "U+A792", "U+A7C4",
      "U+A796", "U+A798", "U+A79A", "U+A79C", "U+A79E", "U+A7A0", "U+A7A2",
      "U+A7A4", "U+A7A6", "U+A7A8", "U+A7B4", "U+A7B6", "U+A7B8", "U+A7BA",
      "U+A7BC", "U+A7BE", "U+A7C0", "U+A7C2", "U+A7C7", "U+A7C9", "U+A7D0",
      "U+A7D6", "U+A7D8", "U+A7F5", "U+A7B3", "U+13A0", "U+13A1", "U+13A2",
      "U+13A3", "U+13A4", "U+13A5", "U+13A6", "U+13A7", "U+13A8", "U+13A9",
      "U+13AA", "U+13AB", "U+13AC", "U+13AD", "U+13AE", "U+13AF", "U+13B0",
      "U+13B1", "U+13B2", "U+13B3", "U+13B4", "U+13B5", "U+13B6", "U+13B7",
      "U+13B8", "U+13B9", "U+13BA", "U+13BB", "U+13BC", "U+13BD", "U+13BE",
      "U+13BF", "U+13C0", "U+13C1", "U+13C2", "U+13C3", "U+13C4", "U+13C5",
      "U+13C6", "U+13C7", "U+13C8", "U+13C9", "U+13CA", "U+13CB", "U+13CC",
      "U+13CD", "U+13CE", "U+13CF", "U+13D0", "U+13D1", "U+13D2", "U+13D3",
      "U+13D4", "U+13D5", "U+13D6", "U+13D7", "U+13D8", "U+13D9", "U+13DA",
      "U+13DB", "U+13DC", "U+13DD", "U+13DE", "U+13DF", "U+13E0", "U+13E1",
      "U+13E2", "U+13E3", "U+13E4", "U+13E5", "U+13E6", "U+13E7", "U+13E8",
      "U+13E9", "U+13EA", "U+13EB", "U+13EC", "U+13ED", "U+13EE", "U+13EF",
      "U+FF21", "U+FF22", "U+FF23", "U+FF24", "U+FF25", "U+FF26", "U+FF27",
      "U+FF28", "U+FF29", "U+FF2A", "U+FF2B", "U+FF2C", "U+FF2D", "U+FF2E",
      "U+FF2F", "U+FF30", "U+FF31", "U+FF32", "U+FF33", "U+FF34", "U+FF35",
      "U+FF36", "U+FF37", "U+FF38", "U+FF39", "U+FF3A", "U+10400",
      "U+10401", "U+10402", "U+10403", "U+10404", "U+10405", "U+10406",
      "U+10407", "U+10408", "U+10409", "U+1040A", "U+1040B", "U+1040C",
      "U+1040D", "U+1040E", "U+1040F", "U+10410", "U+10411", "U+10412",
      "U+10413", "U+10414", "U+10415", "U+10416", "U+10417", "U+10418",
      "U+10419", "U+1041A", "U+1041B", "U+1041C", "U+1041D", "U+1041E",
      "U+1041F", "U+10420", "U+10421", "U+10422", "U+10423", "U+10424",
      "U+10425", "U+10426", "U+10427", "U+104B0", "U+104B1", "U+104B2",
      "U+104B3", "U+104B4", "U+104B5", "U+104B6", "U+104B7", "U+104B8",
      "U+104B9", "U+104BA", "U+104BB", "U+104BC", "U+104BD", "U+104BE",
      "U+104BF", "U+104C0", "U+104C1", "U+104C2", "U+104C3", "U+104C4",
      "U+104C5", "U+104C6", "U+104C7", "U+104C8", "U+104C9", "U+104CA",
      "U+104CB", "U+104CC", "U+104CD", "U+104CE", "U+104CF", "U+104D0",
      "U+104D1", "U+104D2", "U+104D3", "U+10570", "U+10571", "U+10572",
      "U+10573", "U+10574", "U+10575", "U+10576", "U+10577", "U+10578",
      "U+10579", "U+1057A", "U+1057C", "U+1057D", "U+1057E", "U+1057F",
      "U+10580", "U+10581", "U+10582", "U+10583", "U+10584", "U+10585",
      "U+10586", "U+10587", "U+10588", "U+10589", "U+1058A", "U+1058C",
      "U+1058D", "U+1058E", "U+1058F", "U+10590", "U+10591", "U+10592",
      "U+10594", "U+10595", "U+10C80", "U+10C81", "U+10C82", "U+10C83",
      "U+10C84", "U+10C85", "U+10C86", "U+10C87", "U+10C88", "U+10C89",
      "U+10C8A", "U+10C8B", "U+10C8C", "U+10C8D", "U+10C8E", "U+10C8F",
      "U+10C90", "U+10C91", "U+10C92", "U+10C93", "U+10C94", "U+10C95",
      "U+10C96", "U+10C97", "U+10C98", "U+10C99", "U+10C9A", "U+10C9B",
      "U+10C9C", "U+10C9D", "U+10C9E", "U+10C9F", "U+10CA0", "U+10CA1",
      "U+10CA2", "U+10CA3", "U+10CA4", "U+10CA5", "U+10CA6", "U+10CA7",
      "U+10CA8", "U+10CA9", "U+10CAA", "U+10CAB", "U+10CAC", "U+10CAD",
      "U+10CAE", "U+10CAF", "U+10CB0", "U+10CB1", "U+10CB2", "U+118A0",
      "U+118A1", "U+118A2", "U+118A3", "U+118A4", "U+118A5", "U+118A6",
      "U+118A7", "U+118A8", "U+118A9", "U+118AA", "U+118AB", "U+118AC",
      "U+118AD", "U+118AE", "U+118AF", "U+118B0", "U+118B1", "U+118B2",
      "U+118B3", "U+118B4", "U+118B5", "U+118B6", "U+118B7", "U+118B8",
      "U+118B9", "U+118BA", "U+118BB", "U+118BC", "U+118BD", "U+118BE",
      "U+118BF", "U+16E40", "U+16E41", "U+16E42", "U+16E43", "U+16E44",
      "U+16E45", "U+16E46", "U+16E47", "U+16E48", "U+16E49", "U+16E4A",
      "U+16E4B", "U+16E4C", "U+16E4D", "U+16E4E", "U+16E4F", "U+16E50",
      "U+16E51", "U+16E52", "U+16E53", "U+16E54", "U+16E55", "U+16E56",
      "U+16E57", "U+16E58", "U+16E59", "U+16E5A", "U+16E5B", "U+16E5C",
      "U+16E5D", "U+16E5E", "U+16E5F", "U+1E900", "U+1E901", "U+1E902",
      "U+1E903", "U+1E904", "U+1E905", "U+1E906", "U+1E907", "U+1E908",
      "U+1E909", "U+1E90A", "U+1E90B", "U+1E90C", "U+1E90D", "U+1E90E",
      "U+1E90F", "U+1E910", "U+1E911", "U+1E912", "U+1E913", "U+1E914",
      "U+1E915", "U+1E916", "U+1E917", "U+1E918", "U+1E919", "U+1E91A",
      "U+1E91B", "U+1E91C", "U+1E91D", "U+1E91E", "U+1E91F", "U+1E920",
      "U+1E921">>

\* unicode.ToTitle on one character, as strings.ToTitle applies it; a byte
\* that is not valid UTF-8 comes out of strings.Map as U+FFFD.
ToTitleChar(c) ==
    IF \E k \in 1..Len(LowerCase) : LowerCase[k] = c
    THEN UpperCase[CHOOSE k \in 1..Len(LowerCase) : LowerCase[k] = c]
    ELSE IF \E k \in 1..Len(TitleFrom) : TitleFrom[k] = c
         THEN TitleTo[CHOOSE k \in 1..Len(TitleFrom) : TitleFrom[k] = c]
         ELSE IF c = "BAD" THEN "U+FFFD" ELSE c

ReplaceUnderscore(c) == IF c = "_" THEN " " ELSE c

ProductName(bug) ==
    [k \in 1..Len(bug.Product) |-> ToTitleChar(ReplaceUnderscore(bug.Product[k]))]

\* Variant: expiry after one day.
TTLOneDay(bug) == Unix(AddDate(bug.UpdatedAt, 1))

\* bug.UpdatedAt.AddDate(0, 0, 7).Unix()
TTLOf(bug) == Unix(AddDate(bug.UpdatedAt, 7))

\* A DynamoDB attribute value: a string (S), a number (N), or NULL.
NullAttr == [type |-> "NULL", value |-> << >>]

StringAttr(s) == [type |-> "S", value |-> s]

NumberAttr(n) == [type |-> "N", value |-> n]

\* The encoder of dynamodbattribute on a Go string: the empty string is
\* encoded as NULL (NullEmptyString is on by default).
EncodeAttr(s) == IF Len(s) = 0 THEN NullAttr ELSE StringAttr(s)

\* dynamodbattribute.MarshalMap(bug): the attributes are named by the json
\* tags; a time.Time is stored as its RFC3339Nano string, an int64 as a number.
MarshalMap(bug) ==
    [user_id    |-> EncodeAttr(bug.UserID),
     user_name  |-> EncodeAttr(bug.UserName),
     summary    |-> EncodeAttr(bug.Summary),
     product    |-> EncodeAttr(bug.Product),
     details    |-> EncodeAttr(bug.Details),
     created_at |-> StringAttr(FormatRFC3339Nano(bug.CreatedAt)),
     updated_at |-> StringAttr(FormatRFC3339Nano(bug.UpdatedAt)),
     ttl        |-> NumberAttr(bug.TTL)]

\* The table's attribute definitions: both key attributes are of type S, and
\* DynamoDB rejects an item whose key attribute is of another type.
KeyTypeOK(item) == item.user_id.type = "S" /\ item.created_at.type = "S"

\* Variant: a table keyed by user_id alone.
KeyUserOnly(item) == <<item.user_id>>

\* The table's key schema: HASH user_id, RANGE created_at.
KeyOf(item) == <<item.user_id, item.created_at>>

\* DynamoDB PutItem without a condition: the item replaces the one with
\* the same key, if any.
TablePut(table, item) ==
    {x \in table : KeyOf(x) # KeyOf(item)} \cup {item}

\* json.Unmarshal([]byte(payload), &request): text that is not JSON leaves the
\* request at its zero value (the error is only logged).
Unmarshal(payload) == IF payload.json THEN payload.value ELSE ZeroRequest

(***************************************************************************)
(* KanobugCommand: Request, Payload                                        *)
(***************************************************************************)
CommandFields ==
    {"token", "team_id", "team_domain", "channel_id", "channel_name",
     "user_id", "user_name", "text", "trigger_id", "response_url"}

ZeroCommand ==
    [Token |-> EmptyString, TeamID |-> EmptyString, TeamDomain |-> EmptyString,
     ChannelID |-> EmptyString, ChannelName |-> EmptyString,
     UserID |-> EmptyString, UserName |-> EmptyString, Text |-> EmptyString,
     TriggerID |-> EmptyString, ResponseURL |-> EmptyString]

\* Request{Token: query["token"][0], ...}
CommandRequest(query) ==
    [Token       |-> First(query, "token"),
     TeamID      |-> First(query, "team_id"),
     TeamDomain  |-> First(query, "team_domain"),
     ChannelID   |-> First(query, "channel_id"),
     ChannelName |-> First(query, "channel_name"),
     UserID      |-> First(query, "user_id"),
     UserName    |-> First(query, "user_name"),
     Text        |-> First(query, "text"),
     TriggerID   |-> First(query, "trigger_id"),
     ResponseURL |-> First(query, "response_url")]

Option(label, value) == [label |-> label, value |-> value]

ProductOptions ==
    << Option(<<"Harry Potter Coding Kit">>,
              <<"h", "a", "r", "r", "y", "_", "p", "o", "t", "t", "e", "r", "_", "c", "o", "d", "i", "n", "g", "_", "k", "i", "t">>),
       Option(<<"Computer Kit Touch">>,
              <<"c", "o", "m", "p", "u", "t", "e", "r", "_", "k", "i", "t", "_", "t", "o", "u", "c", "h">>),
       Option(<<"Computer Kit 2018">>,
              <<"c", "o", "m", "p", "u", "t", "e", "r", "_", "k", "i", "t", "_", "2", "0", "1", "8">>),
       Option(<<"Pixel Kit">>,
              <<"p", "i", "x", "e", "l", "_", "k", "i", "t">>),
       Option(<<"Motion Sensor Kit">>,
              <<"m", "o", "t", "i", "o", "n", "_", "s", "e", "n", "s", "o", "r", "_", "k", "i", "t">>) >>

\* Variant: the summary field is not pre-filled.
SummaryValueEmpty(request) == EmptyString

\* Value: request.Text
SummaryValue(request) == request.Text

\* The Payload literal of the Command Handler.
Payload(request) ==
    [trigger_id |-> request.TriggerID,
     dialog |->
       [title        |-> <<"Report a Bug">>,
        callback_id  |-> <<"report-bug">>,
        submit_label |-> <<"Submit">>,
        elements |->
          << [label |-> <<"Summarise the Problem">>, type |-> <<"text">>,
              name |-> <<"summary">>, value |-> SummaryValue(request),
              hint |-> <<"A sentence to summarise the problem">>,
              options |-> << >>, optional |-> FALSE],
             [label |-> <<"Product">>, type |-> <<"select">>,
              name |-> <<"product">>, value |-> EmptyString,
              hint |-> EmptyString,
              options |-> ProductOptions, optional |-> FALSE],
             [label |-> <<"Any more details?">>, type |-> <<"textarea">>,
              name |-> <<"details">>, value |-> EmptyString,
              hint |-> <<"If you can help us reproduce the bug, that'd be grand.">>,
              options |-> << >>, optional |-> TRUE] >>]]

\* json.Marshal of an Option, an Element, a Payload: every string member is
\* written with EncodeString.
MarshalOption(o) ==
    [label |-> EncodeString(o.label), value |-> EncodeString(o.value)]

MarshalElement(e) ==
    [label |-> EncodeString(e.label), type |-> EncodeString(e.type),
     name |-> EncodeString(e.name), value |-> EncodeString(e.value),
     hint |-> EncodeString(e.hint),
     options |-> [k \in 1..Len(e.options) |-> MarshalOption(e.options[k])],
     optional |-> e.optional]

MarshalPayload(p) ==
    [trigger_id |-> EncodeString(p.trigger_id),
     dialog |->
       [title        |-> EncodeString(p.dialog.title),
        callback_id  |-> EncodeString(p.dialog.callback_id),
        submit_label |-> EncodeString(p.dialog.submit_label),
        elements |-> [k \in 1..Len(p.dialog.elements) |->
                        MarshalElement(p.dialog.elements[k])]]]

(***************************************************************************)
(* createIssue: the two JSON bodies                                        *)
(***************************************************************************)
\* fmt.Sprintf(jiraHost, os.Getenv("JIRA_API_HOST"))
JiraURL(e) ==
    Concat(<< <<"h", "t", "t", "p", "s", ":", "/", "/">>,
              e.JIRA_API_HOST,
              <<"/", "r", "e", "s", "t", "/", "a", "p", "i", "/", "2", "/", "i", "s", "s", "u", "e", "/">> >>)

\* fmt.Sprintf("Product: %s\nReporter: %s\n\n%s", ...)
Description(bug) ==
    Concat(<< <<"Product: ">>, ProductName(bug), <<"LF", "Reporter: ">>,
              bug.UserName, <<"LF", "LF">>, bug.Details >>)

\* json.Marshal(inputQueue)
InputQueue(bug) ==
    [fields |->
       [project     |-> [key |-> <<"IQ">>],
        summary     |-> EncodeString(bug.Summary),
        description |-> EncodeString(Description(bug)),
        issuetype   |-> [name |-> <<"Bug">>],
        labels      |-> << <<"slack">> >>,
        priority    |-> [name |-> <<"Not Yet Prioritized">>]]]

NoIssue == [ID |-> EmptyString, Key |-> EmptyString, Self |-> EmptyString]

\* Variant: the decoding error is not looked at.
DecodeIssueIgnoreError(body) ==
    [err |-> FALSE, issue |-> [ID |-> body.id, Key |-> body.key, Self |-> body.self]]

\* Variant: an answer without an id counts as a failure.
DecodeIssueRequireID(body) ==
    [err |-> ~body.json \/ body.id = EmptyString,
     issue |-> [ID |-> body.id, Key |-> body.key, Self |-> body.self]]

\* json.NewDecoder(rr.Body).Decode(&issue): a body that is not JSON is an
\* error; members the object lacks stay empty.
DecodeIssue(body) ==
    [err |-> ~body.json,
     issue |-> IF body.json
               THEN [ID |-> body.id, Key |-> body.key, Self |-> body.self]
               ELSE NoIssue]

\* The "Bug submitted" text of the confirmation.
ConfirmationText(issue, e) ==
    Concat(<< <<"Bug submitted - ID: ">>, issue.ID, <<", Key: ">>, issue.Key,
              <<", Issue Link: ">>, <<"https://">>, e.JIRA_API_HOST,
              <<"/projects/IQ/issues/">>, issue.Key >>)

\* json.Marshal(map[string]interface{}{"text": ...})
ConfirmationPayload(issue, e) ==
    [text |-> EncodeString(ConfirmationText(issue, e))]

(***************************************************************************)
(* Responses                                                               *)
(***************************************************************************)
\* What Handler returned: a Response and an error ("nil" for none).
Pending ==
    [outcome |-> "pending", StatusCode |-> 0, Body |-> EmptyString, error |-> "nil"]

\* The invocation panicked: no Response is returned.
Fault ==
    [outcome |-> "fault", StatusCode |-> 0, Body |-> EmptyString, error |-> "nil"]

Response(status, text, error) ==
    [outcome |-> "returned", StatusCode |-> status, Body |-> text, error |-> error]

\* fmt.Sprintf("%s submitting - error: %v", handler, err)
RejectBody(handler) ==
    <<handler, " submitting - error: ", "invalid verification token">>

\* request.Token != os.Getenv("SLACK_VERIFICATION_TOKEN"), negated.
TokenOK(token, e) == token = e.SLACK_VERIFICATION_TOKEN

(***************************************************************************)
(* Inputs                                                                  *)
(***************************************************************************)
TextChars == {"a", "<", "&", "\\", "BAD"}

\* The form of a Command request as url.ParseQuery returns it.
CommandQuery(token, text, trigger, missing) ==
    [f \in CommandFields |->
       IF f \in missing THEN << >>
       ELSE CASE f = "token"      -> << token >>
              [] f = "text"       -> << text >>
              [] f = "trigger_id" -> << trigger >>
              [] OTHER            -> << <<f>> >>]

\* unparseable: url.Parse fails on "?" + r.Body (a control character in it, or
\* a '#' followed by a bad percent-escape).
\* Complete bodies with every text; bodies that lack one field, or do not
\* parse, with one text.
CommandBodies ==
    { [unparseable |-> FALSE, query |-> CommandQuery(tok, text, trig, {})] :
        tok \in {Secret, WrongToken},
        text \in StringsUpTo(TextChars, MaxLen),
        trig \in { <<"1">>, <<"BAD">> } }
      \cup
    { [unparseable |-> c, query |-> CommandQuery(tok, <<"a">>, <<"1">>, missing)] :
        c \in BOOLEAN,
        tok \in {Secret, WrongToken},
        missing \in { {} } \cup { {f} : f \in CommandFields } }

PixelKit == <<"p", "i", "x", "e", "l", "_", "k", "i", "t">>

Submissions ==
    { [Summary |-> s, Product |-> prod, Details |-> d] :
        s \in { <<"s">>, EmptyString },
        prod \in { PixelKit, EmptyString },
        d \in { EmptyString, <<"d">>, <<"<", "d">> } }

Users ==
    { [ID |-> id, Name |-> name] :
        id \in { <<"U", "1">>, EmptyString }, name \in { <<"a">>, EmptyString } }

\* The response URLs: one of the platform; one with a control character; one
\* with a bad percent-escape; "h:1/r", which parses with scheme "h"; "1:1/r",
\* a relative path with a colon in its first segment; "https://:/r", whose
\* host is an empty name with an empty port.
ResponseURLs ==
    { <<"h", "t", "t", "p", "s", ":", "/", "/", "h", "/", "r">>,
      <<"LF">>,
      <<"%", "z", "z">>,
      <<"h", ":", "1", "/", "r">>,
      <<"1", ":", "1", "/", "r">>,
      <<"h", "t", "t", "p", "s", ":", "/", "/", ":", "/", "r">> }

\* The dialog submissions: at most one of summary, product, user id and user
\* name is empty.
InteractiveRequests ==
    { r \in
        { [Type |-> <<"dialog_submission">>, Submission |-> sub,
           CallbackID |-> <<"report-bug">>,
           User |-> usr,
           ActionTS |-> <<"1">>, Token |-> tok, ResponseURL |-> u] :
            sub \in Submissions,
            usr \in Users,
            tok \in {Secret, WrongToken, EmptyString},
            u \in ResponseURLs } :
        Cardinality({k \in 1..4 :
                       <<r.Submission.Summary, r.Submission.Product,
                         r.User.ID, r.User.Name>>[k] = << >>}) <= 1 }

\* The payload field: JSON text of a Dialog Submission, or text that is not JSON.
Payloads ==
    { [json |-> TRUE, value |-> r] : r \in InteractiveRequests }
      \cup { [json |-> FALSE, value |-> ZeroRequest] }

InteractiveBodies ==
    { [unparseable |-> c, query |-> [payload |-> q]] :
        c \in BOOLEAN,
        q \in { << >> } \cup { <<pl>> : pl \in Payloads } }

\* What the tracker answers: created, a JSON error object, an error page.
JiraResponses ==
    { [StatusCode |-> 201,
       Body |-> [json |-> TRUE, id |-> <<"1", "0">>, key |-> <<"I", "Q", "-", "7">>,
                 self |-> <<"u">>]],
      [StatusCode |-> 400,
       Body |-> [json |-> TRUE, id |-> EmptyString, key |-> EmptyString,
                 self |-> EmptyString]],
      [StatusCode |-> 502,
       Body |-> [json |-> FALSE, id |-> EmptyString, key |-> EmptyString,
                 self |-> EmptyString]] }

NoResponse ==
    [StatusCode |-> 0,
     Body |-> [json |-> FALSE, id |-> EmptyString, key |-> EmptyString,
               self |-> EmptyString]]

(***************************************************************************)
(* State                                                                   *)
(***************************************************************************)
VARIABLES
    env,      \* the process environment of the deployment
    clock,    \* the wall clock time.Now() reads
    ticks,    \* how often the clock has advanced
    store,    \* the DynamoDB table: a set of items, one per key
    kind,     \* per invocation: the handler it runs, "" before it starts
    body,     \* per invocation: r.Body as parsed by url.ParseQuery
    pc,       \* per invocation: where it stands
    ireq,     \* per invocation: request of KanobugInteractiveComponent
    creq,     \* per invocation: request of KanobugCommand
    bug,      \* per invocation: bug of PutItem
    rr,       \* per invocation: the tracker's response in createIssue
    issue,    \* per invocation: the decoded issue in createIssue
    err,      \* per invocation: err of Handler once PutItem has returned
    calls,    \* per invocation: the outbound calls made, in order
    resp      \* per invocation: what the invocation returned

vars == <<env, clock, ticks, store, kind, body, pc, ireq, creq, bug, rr,
          issue, err, calls, resp>>

NoBody == [unparseable |-> FALSE, query |-> [payload |-> << >>]]

Init ==
    /\ env \in Environments
    /\ clock = [sec |-> StartSec, nsec |-> 0]
    /\ ticks = 0
    /\ store = {}
    /\ kind = [i \in Invocations |-> ""]
    /\ body = [i \in Invocations |-> NoBody]
    /\ pc = [i \in Invocations |-> "idle"]
    /\ ireq = [i \in Invocations |-> ZeroRequest]
    /\ creq = [i \in Invocations |-> ZeroCommand]
    /\ bug = [i \in Invocations |-> NoBug]
    /\ rr = [i \in Invocations |-> NoResponse]
    /\ issue = [i \in Invocations |-> NoIssue]
    /\ err = [i \in Invocations |-> "unset"]
    /\ calls = [i \in Invocations |-> << >>]
    /\ resp = [i \in Invocations |-> Pending]

\* An outbound call: where it went, what it carried, how it ended.
Call(to, url, payload, result) ==
    [to |-> to, url |-> url, body |-> payload, result |-> result]

\* The wall clock advances between two readings.
Tick ==
    /\ ticks < MaxTicks
    /\ ticks' = ticks + 1
    /\ clock' = NextInstant(clock)
    /\ UNCHANGED <<env, store, kind, body, pc, ireq, creq, bug, rr, issue,
                   err, calls, resp>>

(***************************************************************************)
(* KanobugInteractiveComponent                                             *)
(***************************************************************************)
\* Handler up to the call of PutItem: parse, unmarshal, validate.
InteractiveHandler(i, b) ==
    /\ pc[i] = "idle"
    /\ kind' = [kind EXCEPT ![i] = "KanobugInteractiveComponent"]
    /\ body' = [body EXCEPT ![i] = b]
    /\ IF Panics(b, {"payload"})
       THEN /\ pc' = [pc EXCEPT ![i] = "done"]
            /\ resp' = [resp EXCEPT ![i] = Fault]
            /\ UNCHANGED ireq
       ELSE LET request == Unmarshal(First(b.query, "payload")) IN
            /\ ireq' = [ireq EXCEPT ![i] = request]
            /\ IF ~TokenOK(request.Token, env)
               THEN /\ pc' = [pc EXCEPT ![i] = "done"]
                    /\ resp' = [resp EXCEPT ![i] =
                                  Response(400, RejectBody("KanobugInteractiveComponent"),
                                           "invalid verification token")]
               ELSE /\ pc' = [pc EXCEPT ![i] = "PutItem"]
                    /\ UNCHANGED resp
    /\ UNCHANGED <<env, clock, ticks, store, creq, bug, rr, issue, err, calls>>

\* PutItem: bug := request.ToBug()
PutItemToBug(i) ==
    /\ pc[i] = "PutItem"
    /\ bug' = [bug EXCEPT ![i] = ToBug(ireq[i], clock)]
    /\ pc' = [pc EXCEPT ![i] = "GetDB"]
    /\ UNCHANGED <<env, clock, ticks, store, kind, body, ireq, creq, rr, issue,
                   err, calls, resp>>

\* PutItem from GetDB on: the session may fail, and then nothing is sent; else
\* srv.PutItem is called.  It returns nil after the table took the item, or
\* an error: the table did not take the item ("put error"), or it did and the
\* answer was lost ("put error, applied").  The table takes only an item
\* whose key attributes have the declared type.  The retries srv.PutItem
\* makes by itself send the same item again, and putting an item twice
\* leaves the table as putting it once: they are part of the one call.
\* (MarshalMap cannot fail on a Bug.)
PutItemPut(i, outcome) ==
    /\ pc[i] = "GetDB"
    /\ LET item == MarshalMap([bug[i] EXCEPT !.TTL = TTLOf(bug[i])]) IN
       /\ outcome \in {"put ok", "put error, applied"} => KeyTypeOK(item)
       /\ CASE outcome = "GetDB error" ->
                 UNCHANGED <<store, calls>>
            [] outcome = "put error" ->
                 /\ calls' = [calls EXCEPT ![i] = Append(@, Call("PutItem", <<"TABLE_NAME">>, item, "error"))]
                 /\ UNCHANGED store
            [] outcome = "put error, applied" ->
                 /\ calls' = [calls EXCEPT ![i] = Append(@, Call("PutItem", <<"TABLE_NAME">>, item, "error"))]
                 /\ store' = TablePut(store, item)
            [] outcome = "put ok" ->
                 /\ calls' = [calls EXCEPT ![i] = Append(@, Call("PutItem", <<"TABLE_NAME">>, item, "ok"))]
                 /\ store' = TablePut(store, item)
    /\ err' = [err EXCEPT ![i] =
                CASE outcome = "put ok" -> "nil"
                  [] outcome = "GetDB error" -> "GetDB error"
                  [] OTHER -> "put error"]
    /\ bug' = [bug EXCEPT ![i] = NoBug]
    /\ pc' = [pc EXCEPT ![i] = "createIssue"]
    /\ UNCHANGED <<env, clock, ticks, kind, body, ireq, creq, rr, issue, resp>>

\* How PutItem can end.
PutOutcomes == {"GetDB error", "put error", "put error, applied", "put ok"}

\* Variant: an error of PutItem is surfaced as status 500.
ReturnStoreError(i) ==
    /\ pc' = [pc EXCEPT ![i] = "done"]
    /\ resp' = [resp EXCEPT ![i] =
                  IF err[i] \in {"GetDB error", "put error"}
                  THEN Response(500, EmptyString, err[i])
                  ELSE Response(200, EmptyString, "nil")]

\* The deferred call has returned: Handler returns resp, nil.
Return200(i) ==
    /\ pc' = [pc EXCEPT ![i] = "done"]
    /\ resp' = [resp EXCEPT ![i] = Response(200, EmptyString, "nil")]

\* createIssue up to the decoding of the tracker's response: http.NewRequest
\* fails on a tracker URL that does not parse; else c.Do(r) fails, or the
\* tracker answers.  (json.Marshal cannot fail on inputQueue.)
CreateIssuePost(i, failed, answer) ==
    /\ pc[i] = "createIssue"
    /\ LET b == ToBug(ireq[i], clock)
           iq == InputQueue(b)
       IN IF ~CanSend(JiraURL(env))
          THEN \* http.NewRequest fails, or c.Do before anything is sent
               /\ Return200(i)
               /\ UNCHANGED <<calls, rr, issue>>
          ELSE /\ calls' = [calls EXCEPT ![i] =
                             Append(@, Call("issue", JiraURL(env), iq,
                                            IF failed THEN "error" ELSE "answered"))]
               /\ IF failed
                  THEN /\ Return200(i)
                       /\ UNCHANGED <<rr, issue>>
                  ELSE /\ rr' = [rr EXCEPT ![i] = answer]
                       /\ issue' = [issue EXCEPT ![i] = DecodeIssue(answer.Body).issue]
                       /\ IF DecodeIssue(answer.Body).err
                          THEN Return200(i)
                          ELSE /\ pc' = [pc EXCEPT ![i] = "notify"]
                               /\ UNCHANGED resp
    /\ UNCHANGED <<env, clock, ticks, store, kind, body, ireq, creq, bug, err>>

\* Variant: a failed confirmation is posted a second time.
CreateIssueNotifyRetry(i, outcome) ==
    /\ pc[i] = "notify"
    /\ LET post == Call("response_url", ireq[i].ResponseURL,
                        ConfirmationPayload(issue[i], env), outcome)
       IN IF ~CanSend(ireq[i].ResponseURL)
          THEN UNCHANGED calls
          ELSE calls' = [calls EXCEPT ![i] =
                           IF outcome = "error" THEN @ \o <<post, post>>
                           ELSE Append(@, post)]
    /\ Return200(i)
    /\ UNCHANGED <<env, clock, ticks, store, kind, body, ireq, creq, bug, rr,
                   issue, err>>

\* createIssue from the confirmation payload on: http.NewRequest fails on a
\* response URL that does not parse, and client.Do on one it cannot send to;
\* else the confirmation is posted.
CreateIssueNotify(i, outcome) ==
    /\ pc[i] = "notify"
    /\ IF ~CanSend(ireq[i].ResponseURL)
       THEN UNCHANGED calls
       ELSE calls' = [calls EXCEPT ![i] =
                        Append(@, Call("response_url", ireq[i].ResponseURL,
                                       ConfirmationPayload(issue[i], env), outcome))]
    /\ Return200(i)
    /\ UNCHANGED <<env, clock, ticks, store, kind, body, ireq, creq, bug, rr,
                   issue, err>>

(***************************************************************************)
(* KanobugCommand                                                          *)
(***************************************************************************)
\* Handler up to the dialog.open call: parse, validate, marshal the Payload.
CommandHandler(i, b) ==
    /\ pc[i] = "idle"
    /\ kind' = [kind EXCEPT ![i] = "KanobugCommand"]
    /\ body' = [body EXCEPT ![i] = b]
    /\ IF Panics(b, CommandFields)
       THEN /\ pc' = [pc EXCEPT ![i] = "done"]
            /\ resp' = [resp EXCEPT ![i] = Fault]
            /\ UNCHANGED creq
       ELSE LET request == CommandRequest(b.query) IN
            /\ creq' = [creq EXCEPT ![i] = request]
            /\ IF ~TokenOK(request.Token, env)
               THEN /\ pc' = [pc EXCEPT ![i] = "done"]
                    /\ resp' = [resp EXCEPT ![i] =
                                  Response(400, RejectBody("KanobugCommand"),
                                           "invalid verification token")]
               ELSE /\ pc' = [pc EXCEPT ![i] = "dialog.open"]
                    /\ UNCHANGED resp
    /\ UNCHANGED <<env, clock, ticks, store, ireq, bug, rr, issue, err, calls>>

\* client.Do(req) and the decoding of its answer: whatever happens is logged.
CommandDialogOpen(i, outcome) ==
    /\ pc[i] = "dialog.open"
    /\ calls' = [calls EXCEPT ![i] =
                   Append(@, Call("dialog.open", <<"https://slack.com/api/dialog.open">>,
                                  MarshalPayload(Payload(creq[i])), outcome))]
    /\ Return200(i)
    /\ UNCHANGED <<env, clock, ticks, store, kind, body, ireq, creq, bug, rr,
                   issue, err>>

(***************************************************************************)
(* Specifications                                                          *)
(***************************************************************************)
\* One invocation, of either handler, on every input.  Invocations share
\* nothing but the table and the clock, which no handler reads back.
Next ==
    \/ Tick
    \/ \E b \in InteractiveBodies : InteractiveHandler(1, b)
    \/ PutItemToBug(1)
    \/ \E o \in PutOutcomes : PutItemPut(1, o)
    \/ \E failed \in BOOLEAN, answer \in JiraResponses :
          CreateIssuePost(1, failed, answer)
    \/ \E o \in {"error", "answered"} : CreateIssueNotify(1, o)
    \/ \E b \in CommandBodies : CommandHandler(1, b)
    \/ \E o \in {"error", "undecodable", "ok:true", "ok:false"} :
          CommandDialogOpen(1, o)

Spec == Init /\ [][Next]_vars

\* The same Dialog Submission, with a valid token, as the platform posts it.
SameSubmission ==
    [unparseable |-> FALSE,
     query |-> [payload |->
       << [json |-> TRUE,
           value |-> [Type |-> <<"dialog_submission">>,
                      Submission |-> [Summary |-> <<"s">>, Product |-> PixelKit,
                                      Details |-> EmptyString],
                      CallbackID |-> <<"report-bug">>,
                      User |-> [ID |-> <<"U", "1">>, Name |-> <<"a">>],
                      ActionTS |-> <<"1">>, Token |-> Secret,
                      ResponseURL |-> <<"h", "t", "t", "p", "s", ":", "/", "/", "h", "/", "r">>]] >>]]

\* Two invocations of the Interactive Component Handler on the same Dialog
\* Submission, their steps interleaved in every order.
NextConcurrent ==
    \/ Tick
    \/ \E i \in Invocations : InteractiveHandler(i, SameSubmission)
    \/ \E i \in Invocations : PutItemToBug(i)
    \/ \E i \in Invocations, o \in PutOutcomes :
          PutItemPut(i, o)
    \/ \E i \in Invocations, failed \in BOOLEAN, answer \in JiraResponses :
          CreateIssuePost(i, failed, answer)
    \/ \E i \in Invocations, o \in {"error", "answered"} : CreateIssueNotify(i, o)

SpecConcurrent == Init /\ [][NextConcurrent]_vars

(***************************************************************************)
(* Properties                                                              *)
(***************************************************************************)
Interactive == "KanobugInteractiveComponent"

Command == "KanobugCommand"

Targets(i) == [k \in 1..Len(calls[i]) |-> calls[i][k].to]

CallsTo(i, to) == {k \in 1..Len(calls[i]) : calls[i][k].to = to}

\* The Dialog Submission an invocation was sent, where its body carries one.
Sent(i) == body[i].query.payload[1].value

\* The request carries a token: its body parses as a form and has a token
\* field, or a payload that is JSON.
CarriesToken(i) ==
    /\ ~body[i].unparseable
    /\ \/ kind[i] = Command /\ Len(body[i].query["token"]) > 0
       \/ /\ kind[i] = Interactive
          /\ Len(body[i].query.payload) > 0
          /\ body[i].query.payload[1].json

TokenSent(i) ==
    IF kind[i] = Command THEN body[i].query["token"][1] ELSE Sent(i).Token

\* The invocation got past the token check.
Accepted(i) ==
    \/ kind[i] = Command /\ ~Panics(body[i], CommandFields)
         /\ creq[i].Token = env.SLACK_VERIFICATION_TOKEN
    \/ kind[i] = Interactive /\ ~Panics(body[i], {"payload"})
         /\ ireq[i].Token = env.SLACK_VERIFICATION_TOKEN

\* C1: every finished invocation whose request carries a token other than the
\* verification secret returned status 400 and made no outbound call.
C1_BadTokenRejected ==
    \A i \in Invocations :
      (pc[i] = "done" /\ CarriesToken(i) /\ TokenSent(i) # Secret)
        => /\ resp[i].outcome = "returned"
           /\ resp[i].StatusCode = 400
           /\ calls[i] = << >>

\* Supporting C1: a bad token never leads to an outbound call, and is answered
\* with 400 whenever the parsing part of the handler did not panic.
BadTokenRejectedWhenParsed ==
    \A i \in Invocations :
      (pc[i] = "done" /\ CarriesToken(i) /\ TokenSent(i) # Secret)
        => /\ calls[i] = << >>
           /\ resp[i].outcome = "fault" \/ resp[i].StatusCode = 400
           /\ resp[i].outcome = "fault"
                <=> \E f \in DOMAIN body[i].query : Len(body[i].query[f]) = 0

\* C2: an invocation that got past the token check never faults and, when it
\* ends, has returned status 200 with an empty body, whatever the store, the
\* tracker, the response URL and the dialog endpoint did.
C2_AcceptedReturns200 ==
    \A i \in Invocations :
      Accepted(i) =>
        IF pc[i] = "done"
        THEN resp[i] = [outcome |-> "returned", StatusCode |-> 200,
                        Body |-> << >>, error |-> "nil"]
        ELSE resp[i].outcome = "pending"

C2_Witness ==
    /\ pc[1] = "done" /\ kind[1] = Interactive /\ Accepted(1)
    /\ Targets(1) = <<"PutItem", "issue">>
    /\ calls[1][1].result = "error" /\ calls[1][2].result = "error"

PutOK(i) == err[i] = "nil"

\* The item invocation i put.
ItemPut(i) == calls[i][1].body

\* C3 as claimed: when both invocations have put their item with success, the
\* table holds two distinct Records.
C3_TwoDistinctRecords ==
    \A i, j \in Invocations :
      (i # j /\ PutOK(i) /\ PutOK(j))
        => /\ ItemPut(i) \in store /\ ItemPut(j) \in store
           /\ ItemPut(i) # ItemPut(j)

\* C3 amended: the table holds every item put with success and nothing but
\* items handed to a put (a put that returned an error may have been applied);
\* after two successful puts they are two Records when the two creation
\* timestamps differ and one Record (the later put overwrote the earlier, same
\* key) when they are equal.  No put is refused because of the other.
C3_TwoRecordsUnlessSameInstant ==
    /\ {ItemPut(i) : i \in {j \in Invocations : PutOK(j)}} \subseteq store
    /\ store \subseteq
         {ItemPut(i) : i \in {j \in Invocations : CallsTo(j, "PutItem") # {}}}
    /\ \A x, y \in store : KeyOf(x) = KeyOf(y) => x = y
    /\ \A i, j \in Invocations :
         (i # j /\ PutOK(i) /\ PutOK(j))
           => Cardinality(store) =
                IF ItemPut(i).created_at = ItemPut(j).created_at THEN 1 ELSE 2

C3_Witness ==
    /\ PutOK(1) /\ PutOK(2)
    /\ Cardinality(store) = 2
    /\ \A x \in store : x.user_id = StringAttr(<<"U", "1">>)

\* C4 as claimed: every item put that the table holds carries details "N/A"
\* when the submission's details is empty and the submission's details
\* otherwise, and the submission's user id, user name, summary and product as
\* they were sent.
C4_DetailsDefaulted ==
    \A i \in Invocations :
      \A k \in {j \in CallsTo(i, "PutItem") : calls[i][j].body \in store} :
        LET item == calls[i][k].body
            sub  == Sent(i).Submission
        IN /\ sub.Details = << >> => item.details = StringAttr(<<"N", "/", "A">>)
           /\ sub.Details # << >> => item.details = StringAttr(sub.Details)
           /\ item.user_id = StringAttr(Sent(i).User.ID)
           /\ item.user_name = StringAttr(Sent(i).User.Name)
           /\ item.summary = StringAttr(sub.Summary)
           /\ item.product = StringAttr(sub.Product)

\* The attribute a submitted string is stored as: the string when it is not
\* empty, NULL when it is.
StoredAs(s) == IF s = << >> THEN [type |-> "NULL", value |-> << >>]
               ELSE [type |-> "S", value |-> s]

\* C4 amended: details is as claimed; user id, user name, summary and product
\* are stored unchanged when they are not empty and as NULL when they are.
\* An item put with success is in the table; the table holds nothing but
\* items handed to a put, and none for a submission whose user id is empty,
\* that put being rejected.
C4_CopiedUnlessEmpty ==
    /\ \A i \in Invocations : \A k \in CallsTo(i, "PutItem") :
         LET item == calls[i][k].body
             sub  == Sent(i).Submission
         IN /\ sub.Details = << >> => item.details = StoredAs(<<"N", "/", "A">>)
            /\ sub.Details # << >> => item.details = StoredAs(sub.Details)
            /\ item.user_id = StoredAs(Sent(i).User.ID)
            /\ item.user_name = StoredAs(Sent(i).User.Name)
            /\ item.summary = StoredAs(sub.Summary)
            /\ item.product = StoredAs(sub.Product)
            /\ calls[i][k].result = "ok" => item \in store
            /\ Sent(i).User.ID = << >>
                 => calls[i][k].result = "error" /\ item \notin store
    /\ \A x \in store :
         /\ \E i \in Invocations : \E k \in CallsTo(i, "PutItem") :
              calls[i][k].body = x
         /\ x.user_id.type = "S" /\ x.user_id.value # << >>

\* A Record is stored, by a put that succeeded, for a submission with empty
\* summary and empty details.
C4_Witness ==
    /\ \E x \in store :
         /\ x.details = [type |-> "S", value |-> <<"N", "/", "A">>]
         /\ x.summary.type = "NULL"
         /\ x.product = [type |-> "S", value |-> PixelKit]
    /\ PutOK(1)
    /\ Sent(1).Submission.Details = << >>
    /\ Sent(1).Submission.Summary = << >>

\* C5: every item put, stored or not, has updated_at equal to created_at and a
\* ttl of the creation second plus seven days of 86400 seconds.
C5_TimestampsAndTTL ==
    \A i \in Invocations : \A k \in CallsTo(i, "PutItem") :
      LET item == calls[i][k].body
      IN /\ item.updated_at = item.created_at
         /\ item.created_at.type = "S"
         /\ item.ttl = [type |-> "N", value |-> item.created_at.value[1] + 604800]

C5_Witness ==
    \E x \in store :
      /\ x.created_at.value[2] # 0
      /\ x.ttl.value = x.created_at.value[1] + 604800

\* A string with every byte that is not valid UTF-8 replaced by U+FFFD.
Coerced(s) == [k \in 1..Len(s) |-> IF s[k] = "BAD" THEN "U+FFFD" ELSE s[k]]

\* The descriptor with the two members that come from the request blanked.
Blanked(p) ==
    [p EXCEPT !.trigger_id = << >>, !.dialog.elements[1].value = << >>]

RestIsFixed(p) ==
    /\ Blanked(p) = Blanked(MarshalPayload(Payload(ZeroCommand)))
    /\ DecodeString(p.dialog.callback_id) = <<"report-bug">>
    /\ DecodeString(p.dialog.elements[1].name) = <<"summary">>
    /\ DecodeString(p.dialog.elements[2].name) = <<"product">>
    /\ Len(p.dialog.elements[2].options) = 5
    /\ DecodeString(p.dialog.elements[3].name) = <<"details">>
    /\ p.dialog.elements[3].optional

\* C6 as claimed: the descriptor sent reads back with the request's trigger
\* identifier and, as the value of "summary", the free-text argument exactly.
C6_SummaryIsTextExactly ==
    \A i \in Invocations : \A k \in CallsTo(i, "dialog.open") :
      LET p == calls[i][k].body
      IN /\ DecodeString(p.trigger_id) = body[i].query["trigger_id"][1]
         /\ DecodeString(p.dialog.elements[1].value) = body[i].query["text"][1]
         /\ RestIsFixed(p)

\* C6 amended: the value of "summary" and the trigger identifier read back as
\* those of the request with every byte that is not valid UTF-8 replaced by
\* U+FFFD, so exactly those of the request when they are valid UTF-8; the
\* rest of the descriptor does not depend on the request.
C6_SummaryIsTextCoerced ==
    \A i \in Invocations : \A k \in CallsTo(i, "dialog.open") :
      LET p == calls[i][k].body
          text == body[i].query["text"][1]
          trigger == body[i].query["trigger_id"][1]
      IN /\ DecodeString(p.trigger_id) = Coerced(trigger)
         /\ DecodeString(p.dialog.elements[1].value) = Coerced(text)
         /\ ValidUTF8(text) => DecodeString(p.dialog.elements[1].value) = text
         /\ ValidUTF8(trigger) => DecodeString(p.trigger_id) = trigger
         /\ RestIsFixed(p)

\* A text with characters that are escaped on the wire was sent and reads back.
C6_Witness ==
    \E k \in CallsTo(1, "dialog.open") :
      /\ body[1].query["text"][1] = <<"\\", "<">>
      /\ calls[1][k].body.dialog.elements[1].value = <<"\\\\", "\\u003c">>
      /\ DecodeString(calls[1][k].body.dialog.elements[1].value) = <<"\\", "<">>
      /\ calls[1][k].body.trigger_id = <<"1">>

\* The orders in which one invocation may have made its calls so far.
CallOrders ==
    { << >>, <<"PutItem">>, <<"PutItem", "issue">>,
      <<"PutItem", "issue", "response_url">>,
      <<"issue">>, <<"issue", "response_url">> }

\* C7: an invocation of the Interactive Component Handler makes its calls in
\* the order store write, issue-create, confirmation, each at most once; the
\* issue-create call is made only once PutItem has returned, with or without
\* an error; and no call is made once the invocation has returned.
C7_CallOrder ==
    /\ [](\A i \in Invocations :
            kind[i] = Interactive =>
              /\ Targets(i) \in CallOrders
              /\ CallsTo(i, "issue") # {} => err[i] # "unset"
              /\ CallsTo(i, "PutItem") # {} <=> err[i] \in {"nil", "put error"})
    /\ [][\A i \in Invocations :
            resp[i].outcome # "pending" => calls'[i] = calls[i]]_vars

C7_Witness ==
    /\ pc[1] = "done" /\ resp[1].StatusCode = 200
    /\ Targets(1) = <<"PutItem", "issue", "response_url">>
    /\ calls[1][1].result = "error"

\* The text of a confirmation for the id and key of a tracker answer.
Confirming(answer, host) ==
    <<"Bug submitted - ID: ">> \o answer.Body.id \o <<", Key: ">>
      \o answer.Body.key \o <<", Issue Link: ", "https://">> \o host
      \o <<"/projects/IQ/issues/">> \o answer.Body.key

\* C8: a confirmation is posted only after an issue-create call that was
\* answered with a body that decoded, and reads back as the text for the id
\* and key of that answer; after a transport failure or an answer that does
\* not decode the invocation ends without a confirmation.
C8_AbortWithoutConfirmation ==
    \A i \in Invocations :
      /\ \A k \in CallsTo(i, "response_url") :
           /\ \E j \in CallsTo(i, "issue") : j < k /\ calls[i][j].result = "answered"
           /\ rr[i] \in JiraResponses /\ rr[i].Body.json
           /\ DecodeString(calls[i][k].body.text) = Confirming(rr[i], env.JIRA_API_HOST)
      /\ \A j \in CallsTo(i, "issue") :
           (calls[i][j].result = "error" \/ ~rr[i].Body.json)
             => /\ CallsTo(i, "response_url") = {}
                /\ pc[i] = "done"

C8_Witness ==
    /\ pc[1] = "done" /\ pc[2] = "done"
    /\ Targets(1) = <<"PutItem", "issue">> /\ rr[1].StatusCode = 502
    /\ Targets(2) = <<"PutItem", "issue", "response_url">>
    /\ rr[2].Body.id = <<"1", "0">>

\* The body lacks a field the handler indexes.
LacksField(i) ==
    \/ kind[i] = Interactive /\ Len(body[i].query.payload) = 0
    \/ kind[i] = Command /\ \E f \in CommandFields : Len(body[i].query[f]) = 0

\* C9: an invocation whose body lacks an expected field faults: it returns
\* no response, whether its token is right or wrong, and makes no call.
C9_MissingFieldFaults ==
    \A i \in Invocations :
      LacksField(i) =>
        /\ pc[i] = "done"
        /\ resp[i].outcome = "fault"
        /\ resp[i].StatusCode \notin {200, 400}
        /\ calls[i] = << >>

C9_Witness ==
    /\ kind[1] = Command
    /\ Len(body[1].query["trigger_id"]) = 0
    /\ body[1].query["token"] = <<Secret>>
    /\ ~body[1].unparseable
    /\ resp[1].outcome = "fault"

\* The issue-create call of invocation i was answered with a body that decodes.
Decoded(i) ==
    /\ \E j \in CallsTo(i, "issue") : calls[i][j].result = "answered"
    /\ rr[i].Body.json

Confirmed(i) ==
    \E k \in CallsTo(i, "response_url") :
      DecodeString(calls[i][k].body.text) = Confirming(rr[i], env.JIRA_API_HOST)

\* C10 as claimed: whenever the issue-create answer decoded, whatever its
\* status, the finished invocation has posted the confirmation.
C10_DecodedThenConfirmed ==
    \A i \in Invocations : (pc[i] = "done" /\ Decoded(i)) => Confirmed(i)

\* The response URL is one a request can be sent to: it has scheme http or
\* https and a host, holds no control character, and its percent-escapes are
\* well formed.
Postable(url) ==
    /\ \/ HasPrefix(url, <<"h", "t", "t", "p", ":", "/", "/">>)
       \/ HasPrefix(url, <<"h", "t", "t", "p", "s", ":", "/", "/">>)
    /\ UrlParseOK(url)
    /\ UrlParts(url).host \notin {<< >>, <<":">>}

\* C10 amended: the same, provided a request can be built for the submission's
\* response URL and sent; when the URL does not parse, or is not an http(s)
\* URL with a host, http.NewRequest or client.Do fails and nothing is posted.
C10_DecodedThenConfirmedIfURLParses ==
    \A i \in Invocations :
      (pc[i] = "done" /\ Decoded(i))
        => Confirmed(i) <=> Postable(Sent(i).ResponseURL)

\* A confirmation was posted although the tracker refused to create the issue.
C10_Witness ==
    /\ pc[1] = "done" /\ Confirmed(1)
    /\ rr[1].StatusCode = 400 /\ rr[1].Body.id = << >> /\ rr[1].Body.key = << >>
====
